---------------------------- MODULE Spec2Model ----------------------------
(***************************************************************************)
(* A model of scripts/migrate-legacy-users.ts: the key validation gate,    *)
(* the row loop that turns legacy PocketBase rows into guarded INSERT      *)
(* statements, and the application of the generated artifact to the        *)
(* destination (D1) store.                                                 *)
(*                                                                         *)
(* JavaScript strings are sequences of characters; an opaque run of        *)
(* quote-free characters (a base64 text, a UUID) is written as one element.*)
(* Platform primitives (PBKDF2, AES-GCM, base64, JSON) are modelled by     *)
(* their contracts; the repository's own functions are modelled step by    *)
(* step.                                                                   *)
(***************************************************************************)
EXTENDS Integers, Sequences, FiniteSets, TLC

VARIABLES
    env,            \* process.env.WALLET_ENCRYPTION_KEY
    pc,             \* position of the script
    exitCode,       \* -1 while running, else the process exit code
    uncaught,       \* the error that ended the process, or NoError
    entropy,        \* state of the platform random source
    d1,             \* destination store: [users, wallets], sequences of rows
    proc,           \* the wrangler subprocess: its outcome, or NoProc
    legacy,         \* legacy store: set of joined user/wallet records
    rows,           \* result of the legacy query
    idx,            \* index of the next row of the loop
    sqlStatements,  \* lines accumulated for the artifact
    migrated,
    skipped,
    outputFile,     \* lines of legacy-migration.sql, or NoFile
    console,        \* diagnostics printed so far
    events,         \* history: the steps the run has completed, in order
    d1Start,        \* history: the destination store before any application
    applyPos,       \* number of artifact lines applied in the current pass
    applyPass,      \* number of application passes started
    call,           \* the encryptJwk/decryptJwk round trip in scope, or NoCall
    dashboard       \* the dashboard app: its binding, the exchanges it served

vars == <<env, pc, exitCode, uncaught, entropy, d1, proc, legacy, rows, idx,
          sqlStatements, migrated, skipped, outputFile, console, events,
          d1Start, applyPos, applyPass, call, dashboard>>

-----------------------------------------------------------------------------
(* Bounds of the model. *)

MaxRows == 2        \* legacy records in the legacy store (run)
MaxSeed == 1        \* initial states of the random source
MaxApplyRows == 2   \* legacy records in the legacy store (application)
MaxAuthRows == 2    \* legacy records in the legacy store (external auths)
MaxLiveRows == 1    \* legacy records in the legacy store (damaged samples)
PipeCapacity == 1   \* chunks a pipe of the subprocess holds before a write blocks
MaxWrites == 3      \* chunks the subprocess writes before it exits
MaxLogins == 2      \* successful logins served by the dashboard
MaxLogouts == 2     \* logouts served by the dashboard

-----------------------------------------------------------------------------
(* JavaScript values. *)

Undefined == <<"undefined">>
Null == <<"null">>
NoError == [name |-> "none", message |-> ""]
NoFile == <<"no file">>
NoProc == [state |-> "none"]
NoCall == [stage |-> "none"]
NoDashboard == [password |-> <<"undefined">>]

Truthy(s) == s # Undefined /\ s # Null /\ s # <<>>

Ok(v) == [ok |-> TRUE, value |-> v]
Throw(name, message) == [ok |-> FALSE, error |-> [name |-> name, message |-> message]]

\* JSON values: null, a number, or an object of which only the JWK members
\* kty, n, e, d are observed (an absent member is Undefined).
JsNumber == <<"number">>
JsObj(kty, n, e, d) == <<"object", kty, n, e, d>>
MemberIndex(f) == CASE f = "kty" -> 2 [] f = "n" -> 3 [] f = "e" -> 4 [] f = "d" -> 5

\* jwk.f as JavaScript evaluates it.
Member(v, f) ==
    IF v = Null
    THEN Throw("TypeError", "null is not an object")
    ELSE IF v[1] = "object" THEN Ok(v[MemberIndex(f)]) ELSE Ok(Undefined)

\* The JSON values of the model: null, a number, and keys with or without
\* their kty and their private exponent d.
testJwk == JsObj(<<"RSA">>, <<"test-n">>, <<"AQAB">>, <<"test-d">>)
ValidJwk == JsObj(<<"RSA">>, <<"n-modulus">>, <<"AQAB">>, <<"d-private">>)
JwkNoKty == JsObj(Undefined, <<"n-modulus">>, <<"AQAB">>, <<"d-private">>)
JwkNoD == JsObj(<<"RSA">>, <<"n-modulus">>, <<"AQAB">>, Undefined)
JwkValues == {testJwk, ValidJwk, JwkNoKty, JwkNoD}
JsonValues == JwkValues \cup {Null, JsNumber}

\* JSON.stringify: the text of a value, one quote-free run of characters.
JSON_stringify(v) == <<ToString(v)>>
JsonText(v) == JSON_stringify(v)
InvalidJson == <<"{", "n", "o", "t", " ", "j", "s", "o", "n">>
JsonTable == {<<JSON_stringify(v), v>> : v \in JsonValues}

\* JSON.parse: the value a text encodes; any other text is a syntax error.
JSON_parse(text) ==
    IF \E p \in JsonTable : p[1] = text
    THEN Ok((CHOOSE p \in JsonTable : p[1] = text)[2])
    ELSE Throw("SyntaxError", "JSON Parse error: Unexpected token")

\* message.includes(needle) for the messages the platform produces.
MessageIncludes(message, needle) ==
    <<message, needle>> \in
        {<<"The operation failed for an operation-specific reason", "operation">>,
         <<"JSON Parse error: Unexpected identifier operation", "operation">>}

-----------------------------------------------------------------------------
(* Encryption (lines 19-99). *)

PBKDF2_ITERATIONS == 100000
SALT_LENGTH == 16
IV_LENGTH == 12

\* crypto.getRandomValues(new Uint8Array(n)) in state r of the random source.
RandomBytes(n, r) == [i \in 1..n |-> r % 256]

\* Faulty variant: the key is derived from the salt alone.
deriveKeyFromSaltOnly(masterKey, salt) ==
    <<"PBKDF2-SHA256", <<>>, salt, PBKDF2_ITERATIONS>>

deriveKey(masterKey, salt) ==
    <<"PBKDF2-SHA256", masterKey, salt, PBKDF2_ITERATIONS>>

\* AES-GCM: the ciphertext with its tag is one sealed element that only the
\* same key and nonce open.
AesGcmEncrypt(key, iv, plaintext) ==
    <<<<"AES-GCM", key, iv, plaintext>>>>

\* Faulty variant: decryption that does not authenticate the key.
AesGcmDecryptAnyKey(key, iv, ciphertext) ==
    IF Len(ciphertext) = 1 THEN Ok(ciphertext[1][4])
    ELSE Throw("OperationError",
               "The operation failed for an operation-specific reason")

AesGcmDecrypt(key, iv, ciphertext) ==
    IF Len(ciphertext) = 1 /\ ciphertext[1][2] = key /\ ciphertext[1][3] = iv
    THEN Ok(ciphertext[1][4])
    ELSE Throw("OperationError",
               "The operation failed for an operation-specific reason")

\* btoa(String.fromCharCode(...bytes)): a quote-free text, one per byte string.
btoa(bytes) == <<ToString(bytes)>>

\* s.slice(from, to) for 0 <= from <= to.
Min(a, b) == IF a < b THEN a ELSE b
Slice(s, from, to) ==
    LET end == Min(to, Len(s))
    IN  [i \in 1..(IF end > from THEN end - from ELSE 0) |-> s[from + i]]

\* encryptJwk with the two random draws made explicit.
encryptJwk(jwk, masterKey, saltBytes, iv) ==
    LET key == deriveKey(masterKey, saltBytes)
        plaintext == JSON_stringify(jwk)
        ciphertext == AesGcmEncrypt(key, iv, plaintext)
        combined == iv \o ciphertext
    IN  [encrypted |-> btoa(combined), salt |-> btoa(saltBytes)]

\* The byte strings whose base64 text occurs in the model: the salts and the
\* nonce-prefixed ciphertexts that encryptJwk builds.
MasterKeys == {<<"k">>, <<"q">>}
MostRows ==
    CHOOSE n \in {MaxRows, MaxApplyRows, MaxAuthRows, MaxLiveRows} :
        \A m \in {MaxRows, MaxApplyRows, MaxAuthRows, MaxLiveRows} : m <= n
MaxEntropy == MaxSeed + 4 * MostRows + 6
ShortBlob == SubSeq(RandomBytes(IV_LENGTH, 9), 1, 5)
Encodable ==
    {ShortBlob}
    \cup {RandomBytes(SALT_LENGTH, r) : r \in 0..MaxEntropy}
    \cup {RandomBytes(IV_LENGTH, r + 1)
            \o AesGcmEncrypt(deriveKey(k, RandomBytes(SALT_LENGTH, r)),
                             RandomBytes(IV_LENGTH, r + 1), JSON_stringify(j)) :
            r \in 0..MaxEntropy, k \in MasterKeys, j \in JsonValues}
Base64Pairs == {<<btoa(b), b>> : b \in Encodable}
Base64Table ==
    [text \in {p[1] : p \in Base64Pairs} |->
        (CHOOSE p \in Base64Pairs : p[1] = text)[2]]

\* atob: the bytes a base64 text encodes; any other text is rejected.
atob(text) ==
    IF text \in DOMAIN Base64Table
    THEN Ok(Base64Table[text])
    ELSE Throw("InvalidCharacterError", "The string contains invalid characters.")

\* Faulty variant: the blob is split at the salt length instead of the nonce
\* length.
decryptJwkSplitAtSaltLength(encrypted, salt, masterKey) ==
    LET combined == atob(encrypted)
        saltBytes == atob(salt)
    IN  IF ~combined.ok THEN combined
        ELSE IF ~saltBytes.ok THEN saltBytes
        ELSE LET iv == Slice(combined.value, 0, SALT_LENGTH)
                 ciphertext == Slice(combined.value, SALT_LENGTH, Len(combined.value))
                 key == deriveKey(masterKey, saltBytes.value)
                 plaintext == AesGcmDecrypt(key, iv, ciphertext)
             IN  IF ~plaintext.ok THEN plaintext ELSE JSON_parse(plaintext.value)

decryptJwk(encrypted, salt, masterKey) ==
    LET combined == atob(encrypted)
        saltBytes == atob(salt)
    IN  IF ~combined.ok THEN combined
        ELSE IF ~saltBytes.ok THEN saltBytes
        ELSE LET iv == Slice(combined.value, 0, IV_LENGTH)
                 ciphertext == Slice(combined.value, IV_LENGTH, Len(combined.value))
                 key == deriveKey(masterKey, saltBytes.value)
                 plaintext == AesGcmDecrypt(key, iv, ciphertext)
             IN  IF ~plaintext.ok THEN plaintext ELSE JSON_parse(plaintext.value)

-----------------------------------------------------------------------------
(* SQL helpers (lines 209-215) and the destination store's reading of them. *)

SqlNULL == <<"N", "U", "L", "L">>

\* value.replace(/'/g, "''")
RECURSIVE DoubleQuotes(_)
DoubleQuotes(value) ==
    IF value = <<>> THEN <<>>
    ELSE (IF Head(value) = "'" THEN <<"'", "'">> ELSE <<Head(value)>>)
         \o DoubleQuotes(Tail(value))

sqlEscape(value) ==
    IF value = Null \/ value = Undefined \/ value = <<>> THEN SqlNULL
    ELSE <<"'">> \o DoubleQuotes(value) \o <<"'">>

\* The value a SQL token denotes: NULL, or the text of a quoted literal with
\* each doubled quote read as one.
RECURSIVE Undouble(_)
Undouble(body) ==
    IF body = <<>> THEN <<>>
    ELSE IF Len(body) >= 2 /\ body[1] = "'" /\ body[2] = "'"
         THEN <<"'">> \o Undouble(Tail(Tail(body)))
         ELSE <<Head(body)>> \o Undouble(Tail(body))

SqlValue(token) ==
    IF token = SqlNULL THEN Null
    ELSE Undouble(Slice(token, 1, Len(token) - 1))

\* a = b in SQL: never true when either side is NULL.
SqlEq(a, b) == a # Null /\ b # Null /\ a = b

-----------------------------------------------------------------------------
(* The legacy store and its query (lines 231-288). *)

Letters == <<"a", "b", "c", "d">>
TimeText(t) == <<"2025-07-2", ToString(t)>>


\* One users row joined with its wallets row and its external auths.
LegacyRecord(t, email, address, payload, encrypted) ==
    [user_id |-> <<"pb", Letters[t]>>, email |-> email, name |-> <<"N", Letters[t]>>,
     created |-> t, updated |-> t, wallet_address |-> address,
     regular_jwk |-> payload, wallet_created |-> t, wallet_updated |-> t,
     github_id |-> Null, google_id |-> Null, encrypted |-> encrypted]

\* Faulty variant: the query does not filter out empty key payloads.
SelectedWithEmptyPayload(rec) ==
    /\ rec.encrypted = 0
    /\ rec.regular_jwk # Null

\* WHERE w.encrypted = 0 AND w.regular_jwk IS NOT NULL AND w.regular_jwk != ''
Selected(rec) ==
    /\ rec.encrypted = 0
    /\ rec.regular_jwk # Null
    /\ rec.regular_jwk # <<>>

\* Faulty variant: the query returns the newest user first.
RECURSIVE OrderByCreatedDesc(_)
OrderByCreatedDesc(recs) ==
    IF recs = {} THEN <<>>
    ELSE LET first == CHOOSE r \in recs : \A o \in recs : r.created >= o.created
         IN  <<first>> \o OrderByCreatedDesc(recs \ {first})

\* ORDER BY u.created ASC
RECURSIVE OrderByCreated(_)
OrderByCreated(recs) ==
    IF recs = {} THEN <<>>
    ELSE LET first == CHOOSE r \in recs : \A o \in recs : r.created <= o.created
         IN  <<first>> \o OrderByCreated(recs \ {first})

\* The projection of the SELECT list: the LegacyRow of a record.
LegacyRow(rec) ==
    [user_id |-> rec.user_id, email |-> rec.email, name |-> rec.name,
     created |-> TimeText(rec.created), updated |-> TimeText(rec.updated),
     wallet_address |-> rec.wallet_address, regular_jwk |-> rec.regular_jwk,
     wallet_created |-> TimeText(rec.wallet_created),
     wallet_updated |-> TimeText(rec.wallet_updated),
     github_id |-> rec.github_id, google_id |-> rec.google_id]

LegacyQuery(store) ==
    LET ordered == OrderByCreated({rec \in store : Selected(rec)})
    IN  [i \in 1..Len(ordered) |-> LegacyRow(ordered[i])]

-----------------------------------------------------------------------------
(* Statement generation (lines 290-367). *)

\* crypto.randomUUID() in state r of the random source.
randomUUID(r) == <<"uuid-", ToString(r)>>

DigitValue(c) ==
    CASE c = "0" -> 0 [] c = "1" -> 1 [] c = "2" -> 2 [] c = "3" -> 3
      [] c = "4" -> 4 [] c = "5" -> 5 [] c = "6" -> 6 [] c = "7" -> 7
      [] c = "8" -> 8 [] c = "9" -> 9 [] OTHER -> -1

\* parseInt(s, 10): the number its leading digits spell, else NaN.
NaN == [nan |-> TRUE]
RECURSIVE ParseDigits(_, _)
ParseDigits(s, acc) ==
    IF s = <<>> \/ DigitValue(Head(s)) < 0 THEN acc
    ELSE ParseDigits(Tail(s), 10 * acc + DigitValue(Head(s)))

parseInt(s) ==
    IF s = <<>> \/ DigitValue(Head(s)) < 0 THEN NaN
    ELSE [nan |-> FALSE, value |-> ParseDigits(s, 0)]

\* row.github_id ? parseInt(row.github_id, 10) : null, then ${githubId ?? "NULL"}
GithubToken(github_id) ==
    IF ~Truthy(github_id) THEN SqlNULL
    ELSE LET githubId == parseInt(github_id)
         IN  IF githubId.nan THEN <<"N", "a", "N">> ELSE <<ToString(githubId.value)>>

HeaderLines(n) ==
    << [kind |-> "comment", text |-> "Legacy PocketBase user migration"],
       [kind |-> "comment", text |-> "Generated"],
       [kind |-> "comment", text |-> "Users to migrate", count |-> n],
       [kind |-> "blank"] >>

\* Line 339: the row's comment line (the email and legacy id are not escaped).
UserComment(row) ==
    [kind |-> "comment", text |-> "User", email |-> row.email,
     legacy_id |-> row.user_id]

\* Lines 342-349: INSERT INTO users ... SELECT ... WHERE NOT EXISTS (... email = E)
UserInsert(userId, row) ==
    [kind |-> "insert_user",
     id |-> sqlEscape(userId),
     email |-> sqlEscape(row.email),
     name |-> sqlEscape(row.name),
     github_id |-> GithubToken(row.github_id),
     google_id |-> sqlEscape(row.google_id),
     created_at |-> sqlEscape(row.created),
     updated_at |-> sqlEscape(row.updated),
     unless_email |-> sqlEscape(row.email)]

\* Faulty variant: the wallet insert carries the legacy key as it was read.
WalletInsertPlaintext(walletId, row, encrypted, salt) ==
    [kind |-> "insert_wallet",
     id |-> sqlEscape(walletId),
     user_of_email |-> sqlEscape(row.email),
     address |-> sqlEscape(row.wallet_address),
     encrypted_jwk |-> sqlEscape(row.regular_jwk),
     salt |-> sqlEscape(salt),
     created_at |-> sqlEscape(row.wallet_created),
     updated_at |-> sqlEscape(row.wallet_updated),
     unless_wallet_of_email |-> sqlEscape(row.email),
     unless_address |-> sqlEscape(row.wallet_address)]

\* Faulty variant: the wallet's user is looked up by name instead of email.
WalletInsertUserByName(walletId, row, encrypted, salt) ==
    [kind |-> "insert_wallet",
     id |-> sqlEscape(walletId),
     user_of_email |-> sqlEscape(row.name),
     address |-> sqlEscape(row.wallet_address),
     encrypted_jwk |-> sqlEscape(encrypted),
     salt |-> sqlEscape(salt),
     created_at |-> sqlEscape(row.wallet_created),
     updated_at |-> sqlEscape(row.wallet_updated),
     unless_wallet_of_email |-> sqlEscape(row.email),
     unless_address |-> sqlEscape(row.wallet_address)]

\* Faulty variant: the wallet insert has no guard on the address.
WalletInsertWithoutAddressGuard(walletId, row, encrypted, salt) ==
    [kind |-> "insert_wallet",
     id |-> sqlEscape(walletId),
     user_of_email |-> sqlEscape(row.email),
     address |-> sqlEscape(row.wallet_address),
     encrypted_jwk |-> sqlEscape(encrypted),
     salt |-> sqlEscape(salt),
     created_at |-> sqlEscape(row.wallet_created),
     updated_at |-> sqlEscape(row.wallet_updated),
     unless_wallet_of_email |-> sqlEscape(row.email),
     unless_address |-> SqlNULL]

\* Lines 353-361: INSERT INTO wallets ... SELECT ..., (SELECT id FROM users
\* WHERE email = E), ... WHERE NOT EXISTS (wallet of that user) AND NOT EXISTS
\* (wallet with address A)
WalletInsert(walletId, row, encrypted, salt) ==
    [kind |-> "insert_wallet",
     id |-> sqlEscape(walletId),
     user_of_email |-> sqlEscape(row.email),
     address |-> sqlEscape(row.wallet_address),
     encrypted_jwk |-> sqlEscape(encrypted),
     salt |-> sqlEscape(salt),
     created_at |-> sqlEscape(row.wallet_created),
     updated_at |-> sqlEscape(row.wallet_updated),
     unless_wallet_of_email |-> sqlEscape(row.email),
     unless_address |-> sqlEscape(row.wallet_address)]

\* Faulty variant: the check forgets the private exponent.
MissingFieldsWithoutD(jwk) ==
    \/ ~Truthy(Member(jwk, "n").value)
    \/ ~Truthy(Member(jwk, "e").value)

\* Line 318: !jwk.n || !jwk.e || !jwk.d, for a jwk that is not null.
MissingFields(jwk) ==
    \/ ~Truthy(Member(jwk, "n").value)
    \/ ~Truthy(Member(jwk, "e").value)
    \/ ~Truthy(Member(jwk, "d").value)

\* The outcome of one iteration of the loop body for row, the random source
\* being in state r: "skip" (either continue), "emit" with the lines pushed,
\* or "throw" with the error that leaves the loop.
RowOutcome(row, masterKey, r) ==
    LET userId == randomUUID(r)
        walletId == randomUUID(r + 1)
        parsed == JSON_parse(row.regular_jwk)
    IN  IF ~parsed.ok
        THEN [kind |-> "skip", reason |-> "invalid JWK JSON", draws |-> 2]
        ELSE
        LET jwk == parsed.value
            n == Member(jwk, "n")
        IN  IF ~n.ok THEN [kind |-> "throw", error |-> n.error, draws |-> 2]
            ELSE IF MissingFields(jwk)
            THEN [kind |-> "skip", reason |-> "JWK missing required fields",
                  draws |-> 2]
            ELSE
            LET sealed == encryptJwk(jwk, masterKey,
                                     RandomBytes(SALT_LENGTH, r + 2),
                                     RandomBytes(IV_LENGTH, r + 3))
            IN  [kind |-> "emit", draws |-> 4,
                 lines |-> << UserComment(row),
                              UserInsert(userId, row),
                              WalletInsert(walletId, row, sealed.encrypted, sealed.salt),
                              [kind |-> "blank"] >>]

-----------------------------------------------------------------------------
(* The run: main (lines 219-384) and validateEncryptionKey (lines 108-207). *)

\* process.exit(code), or the process ending on an error no handler caught
\* (exit code 1).
Exit(code, error) ==
    /\ pc' = "exited"
    /\ exitCode' = code
    /\ uncaught' = error

\* Faulty variant: only an unset variable counts as missing, an empty one passes.
EnvMissingUnsetOnly(value) == value = Undefined

\* Line 220: !WALLET_ENCRYPTION_KEY
EnvMissing(value) == ~Truthy(value)

\* Faulty variant: main opens the legacy store without calling validateEncryptionKey.
CheckEnvWithoutValidation ==
    /\ pc = "start"
    /\ IF EnvMissing(env)
       THEN /\ Exit(1, NoError)
            /\ console' = Append(console, "WALLET_ENCRYPTION_KEY env var is required")
       ELSE /\ pc' = "open"
            /\ console' = console
            /\ UNCHANGED <<exitCode, uncaught>>
    /\ UNCHANGED <<env, entropy, d1, proc, legacy, rows, idx, sqlStatements,
                   migrated, skipped, outputFile, events, d1Start, applyPos, applyPass>>
    /\ UNCHANGED <<call, dashboard>>

\* Lines 219-229.
CheckEnv ==
    /\ pc = "start"
    /\ IF EnvMissing(env)
       THEN /\ Exit(1, NoError)
            /\ console' = Append(console, "WALLET_ENCRYPTION_KEY env var is required")
       ELSE /\ pc' = "selftest"
            /\ console' = console
            /\ UNCHANGED <<exitCode, uncaught>>
    /\ UNCHANGED <<env, entropy, d1, proc, legacy, rows, idx, sqlStatements,
                   migrated, skipped, outputFile, events, d1Start, applyPos, applyPass>>
    /\ UNCHANGED <<call, dashboard>>

\* What the platform can do to the self-test's round trip: nothing, reject a
\* call, or hand back a key that differs from the fixture in one member.
SelfTestFaults == {"none", "throw", "kty", "n", "e", "d"}

\* The condition of line 117.
SelfTestMismatch(decrypted) ==
    \/ Member(decrypted, "kty").value # Member(testJwk, "kty").value
    \/ Member(decrypted, "n").value # Member(testJwk, "n").value
    \/ Member(decrypted, "d").value # Member(testJwk, "d").value

\* Lines 115-116: the value of `decrypted` for the given platform fault, or
\* the error that encryptJwk or decryptJwk threw.
SelfTestDecrypted(masterKey, r, fault) ==
    LET sealed == encryptJwk(testJwk, masterKey, RandomBytes(SALT_LENGTH, r),
                             RandomBytes(IV_LENGTH, r + 1))
        opened == decryptJwk(sealed.encrypted, sealed.salt, masterKey)
    IN  IF fault = "throw"
        THEN Throw("OperationError",
                   "The operation failed for an operation-specific reason")
        ELSE IF fault \in {"kty", "n", "e", "d"} /\ opened.ok
        THEN Ok([opened.value EXCEPT ![MemberIndex(fault)] = <<"other">>])
        ELSE opened

\* Lines 111-126: the try block's result for the given platform fault.
SelfTestResult(masterKey, r, fault) ==
    LET decrypted == SelfTestDecrypted(masterKey, r, fault)
    IN  IF ~decrypted.ok THEN decrypted
        ELSE IF SelfTestMismatch(decrypted.value)
        THEN Throw("Error", "Decrypted JWK does not match original")
        ELSE decrypted

SelfTest ==
    /\ pc = "selftest"
    /\ \E fault \in SelfTestFaults :
         LET result == SelfTestResult(env, entropy, fault)
         IN  /\ entropy' = entropy + 2
             /\ events' = Append(events, "selftest")
             /\ call' = [stage |-> "selftest",
                         decrypted |-> SelfTestDecrypted(env, entropy, fault)]
             /\ IF result.ok
                THEN /\ pc' = "spawn"
                     /\ console' = Append(console, "Round-trip self-test passed")
                     /\ UNCHANGED <<exitCode, uncaught>>
                ELSE /\ Exit(1, NoError)
                     /\ console' = Append(console, "Round-trip self-test FAILED")
    /\ UNCHANGED <<env, d1, proc, legacy, rows, idx, sqlStatements, migrated,
                   skipped, outputFile, d1Start, applyPos, applyPass, dashboard>>

\* Lines 189-206: the catch clause of the production validation.
IsDecryptFailure(error) ==
    \/ MessageIncludes(error.message, "Unsupported state")
    \/ MessageIncludes(error.message, "decrypt")
    \/ MessageIncludes(error.message, "operation")

\* Faulty variant: a decryption failure is downgraded to a warning and the run goes on.
CatchLiveWarnsOnly(error) ==
    IF IsDecryptFailure(error)
    THEN /\ pc' = "open"
         /\ console' = Append(console, "Encryption key does NOT match production")
         /\ UNCHANGED <<exitCode, uncaught>>
    ELSE /\ Exit(1, error)
         /\ console' = console

CatchLive(error) ==
    IF IsDecryptFailure(error)
    THEN /\ Exit(1, NoError)
         /\ console' = Append(console, "Encryption key does NOT match production")
    ELSE /\ Exit(1, error)
         /\ console' = console

\* Lines 127-150: the self-test's block is left (its `decrypted` is out of
\* scope) and Bun.spawn starts the wrangler query, or throws.
SpawnQuery ==
    /\ pc = "spawn"
    /\ events' = Append(events, "query")
    /\ \E started \in BOOLEAN :
         IF started
         THEN /\ proc' = [state |-> "running"]
              /\ pc' = "await"
              /\ UNCHANGED <<exitCode, uncaught, console>>
         ELSE /\ proc' = NoProc
              /\ CatchLive([name |-> "Error", message |-> "Executable not found in $PATH"])
    /\ UNCHANGED <<env, entropy, d1, legacy, rows, idx, sqlStatements, migrated,
                   skipped, outputFile, d1Start, applyPos, applyPass>>
    /\ call' = NoCall
    /\ UNCHANGED dashboard

\* What the subprocess can end with: a non-zero exit code, or exit code 0 with
\* output that is not JSON (the parser's message quotes the text it met, so
\* it may or may not hold one of the words the catch looks for) or that holds the result of SELECT ... FROM
\* wallets LIMIT 1 on the destination store: any one of its wallets, and for
\* a store without wallets an empty result or no result set.
QueryOutcomes(store) ==
    {[state |-> "exited", exitCode |-> 1, stdout |-> [parses |-> FALSE]],
     [state |-> "exited", exitCode |-> 0,
      stdout |-> [parses |-> FALSE,
                  message |-> "JSON Parse error: Unexpected EOF"]],
     [state |-> "exited", exitCode |-> 0,
      stdout |-> [parses |-> FALSE,
                  message |-> "JSON Parse error: Unexpected identifier operation"]]}
    \cup (IF store.wallets = <<>>
          THEN {[state |-> "exited", exitCode |-> 0,
                 stdout |-> [parses |-> TRUE, results |-> FALSE]],
                [state |-> "exited", exitCode |-> 0,
                 stdout |-> [parses |-> TRUE, results |-> TRUE, rows |-> <<>>]]}
          ELSE {[state |-> "exited", exitCode |-> 0,
                 stdout |-> [parses |-> TRUE, results |-> TRUE,
                            rows |-> <<store.wallets[i]>>]] :
                    i \in 1..Len(store.wallets)})

\* Faulty variant: the sample is accepted without a key type.
SampleCheckWithoutKty(sample, masterKey) ==
    LET jwk == decryptJwk(sample.encrypted_jwk, sample.salt, masterKey)
    IN  IF ~jwk.ok THEN jwk
        ELSE LET n == Member(jwk.value, "n")
             IN  IF ~n.ok THEN n
                 ELSE IF \/ ~Truthy(n.value)
                         \/ ~Truthy(Member(jwk.value, "e").value)
                         \/ ~Truthy(Member(jwk.value, "d").value)
                 THEN Throw("Error", "Decrypted production JWK is missing required fields")
                 ELSE jwk

\* Lines 178-188: decrypt the sampled wallet and look for the four members.
SampleCheck(sample, masterKey) ==
    LET jwk == decryptJwk(sample.encrypted_jwk, sample.salt, masterKey)
    IN  IF ~jwk.ok THEN jwk
        ELSE LET kty == Member(jwk.value, "kty")
             IN  IF ~kty.ok THEN kty
                 ELSE IF \/ ~Truthy(kty.value)
                         \/ ~Truthy(Member(jwk.value, "n").value)
                         \/ ~Truthy(Member(jwk.value, "e").value)
                         \/ ~Truthy(Member(jwk.value, "d").value)
                 THEN Throw("Error", "Decrypted production JWK is missing required fields")
                 ELSE jwk

\* Faulty variant: output that cannot be parsed is downgraded to a warning.
LiveResultDegradesUnparseable(outcome, masterKey) ==
    IF outcome.exitCode # 0
    THEN [kind |-> "skip", warning |-> "Could not query production DB"]
    ELSE IF ~outcome.stdout.parses
    THEN [kind |-> "skip", warning |-> "Could not query production DB"]
    ELSE IF ~outcome.stdout.results \/ Len(outcome.stdout.rows) = 0
    THEN [kind |-> "skip", warning |-> "No wallets found in production DB"]
    ELSE LET checked == SampleCheck(outcome.stdout.rows[1], masterKey)
         IN  IF checked.ok THEN [kind |-> "valid"]
             ELSE [kind |-> "throw", error |-> checked.error]

\* Faulty variant: the first row is read without looking at the row count.
LiveResultReadsFirstRow(outcome, masterKey) ==
    IF outcome.exitCode # 0
    THEN [kind |-> "skip", warning |-> "Could not query production DB"]
    ELSE IF ~outcome.stdout.parses
    THEN [kind |-> "throw",
          error |-> [name |-> "SyntaxError", message |-> outcome.stdout.message]]
    ELSE IF ~outcome.stdout.results \/ Len(outcome.stdout.rows) = 0
    THEN [kind |-> "throw",
          error |-> [name |-> "TypeError",
                     message |-> "undefined is not an object"]]
    ELSE LET checked == SampleCheck(outcome.stdout.rows[1], masterKey)
         IN  IF checked.ok THEN [kind |-> "valid"]
             ELSE [kind |-> "throw", error |-> checked.error]

\* Lines 156-188: what validation makes of the subprocess's outcome:
\* "skip" (a warning, return), "valid" (return), or "throw".
LiveResult(outcome, masterKey) ==
    IF outcome.exitCode # 0
    THEN [kind |-> "skip", warning |-> "Could not query production DB"]
    ELSE IF ~outcome.stdout.parses
    THEN [kind |-> "throw",
          error |-> [name |-> "SyntaxError", message |-> outcome.stdout.message]]
    ELSE IF ~outcome.stdout.results \/ Len(outcome.stdout.rows) = 0
    THEN [kind |-> "skip", warning |-> "No wallets found in production DB"]
    ELSE LET checked == SampleCheck(outcome.stdout.rows[1], masterKey)
         IN  IF checked.ok THEN [kind |-> "valid"]
             ELSE [kind |-> "throw", error |-> checked.error]

\* Line 179 is reached: the outcome has a first row to decrypt.
Sampled(outcome) ==
    /\ outcome.exitCode = 0
    /\ outcome.stdout.parses
    /\ outcome.stdout.results
    /\ Len(outcome.stdout.rows) > 0

\* Lines 156-206: the outcome of the subprocess is evaluated.
EvaluateOutcome(outcome) ==
    LET live == LiveResult(outcome, env)
    IN  /\ proc' = outcome
        /\ events' = events
               \o (IF Sampled(outcome) THEN <<"decrypt">> ELSE <<>>)
               \o <<"live">>
        /\ IF live.kind = "throw"
           THEN CatchLive(live.error)
           ELSE /\ pc' = "open"
                /\ console' = Append(console,
                                   IF live.kind = "valid"
                                   THEN "Encryption key is valid"
                                   ELSE live.warning)
                /\ UNCHANGED <<exitCode, uncaught>>

\* Lines 152-206: the three awaits complete, then the outcome is evaluated.
AwaitQuery ==
    /\ pc = "await"
    /\ \E outcome \in QueryOutcomes(d1) : EvaluateOutcome(outcome)
    /\ UNCHANGED <<env, entropy, d1, legacy, rows, idx, sqlStatements, migrated,
                   skipped, outputFile, d1Start, applyPos, applyPass>>
    /\ UNCHANGED <<call, dashboard>>

\* Faulty variant: an empty result goes on to the loop and the write.
OpenLegacyWithoutEarlyExit ==
    /\ pc = "open"
    /\ rows' = LegacyQuery(legacy)
    /\ events' = Append(events, "open")
    /\ pc' = "loop"
    /\ idx' = 1
    /\ sqlStatements' = HeaderLines(Len(rows'))
    /\ UNCHANGED <<env, exitCode, uncaught, entropy, d1, proc, legacy, migrated,
                   skipped, outputFile, console, d1Start, applyPos, applyPass, call, dashboard>>

\* Lines 231-299: open the legacy store, run the query, start the artifact.
OpenLegacy ==
    /\ pc = "open"
    /\ rows' = LegacyQuery(legacy)
    /\ events' = Append(events, "open")
    /\ IF Len(rows') = 0
       THEN /\ Exit(0, NoError)
            /\ console' = Append(console, "Nothing to migrate")
            /\ UNCHANGED <<idx, sqlStatements>>
       ELSE /\ pc' = "loop"
            /\ idx' = 1
            /\ sqlStatements' = HeaderLines(Len(rows'))
            /\ console' = console
            /\ UNCHANGED <<exitCode, uncaught>>
    /\ UNCHANGED <<env, entropy, d1, proc, legacy, migrated, skipped, outputFile,
                   d1Start, applyPos, applyPass>>
    /\ UNCHANGED <<call, dashboard>>

\* Faulty variant: a skipped row is counted as migrated.
ProcessRowCountsSkipAsMigrated ==
    /\ pc = "loop"
    /\ idx <= Len(rows)
    /\ LET out == RowOutcome(rows[idx], env, entropy)
       IN  /\ entropy' = entropy + out.draws
           /\ events' = Append(events, "row")
           /\ CASE out.kind = "skip" ->
                     /\ migrated' = migrated + 1
                     /\ idx' = idx + 1
                     /\ console' = Append(console, out.reason)
                     /\ UNCHANGED <<pc, exitCode, uncaught, sqlStatements, skipped>>
                [] out.kind = "emit" ->
                     /\ sqlStatements' = sqlStatements \o out.lines
                     /\ migrated' = migrated + 1
                     /\ idx' = idx + 1
                     /\ console' = console
                     /\ UNCHANGED <<pc, exitCode, uncaught, skipped>>
                [] out.kind = "throw" ->
                     /\ Exit(1, out.error)
                     /\ UNCHANGED <<idx, sqlStatements, migrated, skipped, console>>
    /\ UNCHANGED <<env, d1, proc, legacy, rows, outputFile, d1Start, applyPos,
                   applyPass, call, dashboard>>

\* Lines 301-367: one iteration of the loop.
ProcessRow ==
    /\ pc = "loop"
    /\ idx <= Len(rows)
    /\ LET out == RowOutcome(rows[idx], env, entropy)
       IN  /\ entropy' = entropy + out.draws
           /\ events' = Append(events, "row")
           /\ CASE out.kind = "skip" ->
                     /\ skipped' = skipped + 1
                     /\ idx' = idx + 1
                     /\ console' = Append(console, out.reason)
                     /\ UNCHANGED <<pc, exitCode, uncaught, sqlStatements, migrated>>
                [] out.kind = "emit" ->
                     /\ sqlStatements' = sqlStatements \o out.lines
                     /\ migrated' = migrated + 1
                     /\ idx' = idx + 1
                     /\ console' = console
                     /\ UNCHANGED <<pc, exitCode, uncaught, skipped>>
                [] out.kind = "throw" ->
                     /\ Exit(1, out.error)
                     /\ UNCHANGED <<idx, sqlStatements, migrated, skipped, console>>
    /\ UNCHANGED <<env, d1, proc, legacy, rows, outputFile, d1Start, applyPos, applyPass>>
    /\ UNCHANGED <<call, dashboard>>

\* Lines 369-384: write the artifact and report.
WriteArtifact ==
    /\ pc = "loop"
    /\ idx > Len(rows)
    /\ outputFile' = sqlStatements
    /\ events' = Append(events, "write")
    /\ console' = Append(console, "Done")
    /\ Exit(0, NoError)
    /\ UNCHANGED <<env, entropy, d1, proc, legacy, rows, idx, sqlStatements,
                   migrated, skipped, d1Start, applyPos, applyPass>>
    /\ UNCHANGED <<call, dashboard>>

-----------------------------------------------------------------------------
(* Applying the artifact to the destination store (MIGRATION.md, wrangler d1
   execute --file): the statements of lines 342-361 under SQL semantics.  The
   tables are sequences of rows; the repository declares no constraint on
   them, so none is enforced. *)

\* (SELECT id FROM users WHERE email = E): the first match, or NULL.
ScalarUserId(store, emailToken) ==
    LET matches == {i \in 1..Len(store.users) :
                       SqlEq(store.users[i].email, SqlValue(emailToken))}
    IN  IF matches = {} THEN Null
        ELSE store.users[CHOOSE i \in matches : \A j \in matches : i <= j].id

\* Lines 342-349 executed: the user insert and its NOT EXISTS guard.
ApplyUserInsert(store, line) ==
    IF \E i \in 1..Len(store.users) :
           SqlEq(store.users[i].email, SqlValue(line.unless_email))
    THEN store
    ELSE [store EXCEPT !.users = Append(@,
            [id |-> SqlValue(line.id), email |-> SqlValue(line.email),
             name |-> SqlValue(line.name),
             github_id |-> IF line.github_id = SqlNULL THEN Null ELSE line.github_id,
             google_id |-> SqlValue(line.google_id),
             created_at |-> SqlValue(line.created_at),
             updated_at |-> SqlValue(line.updated_at)])]

\* Lines 353-361 executed: the wallet insert and its two NOT EXISTS guards.
ApplyWalletInsert(store, line) ==
    IF \/ \E i \in 1..Len(store.wallets) :
              SqlEq(store.wallets[i].user_id,
                    ScalarUserId(store, line.unless_wallet_of_email))
       \/ \E i \in 1..Len(store.wallets) :
              SqlEq(store.wallets[i].address, SqlValue(line.unless_address))
    THEN store
    ELSE [store EXCEPT !.wallets = Append(@,
            [id |-> SqlValue(line.id),
             user_id |-> ScalarUserId(store, line.user_of_email),
             address |-> SqlValue(line.address),
             encrypted_jwk |-> SqlValue(line.encrypted_jwk),
             salt |-> SqlValue(line.salt),
             created_at |-> SqlValue(line.created_at),
             updated_at |-> SqlValue(line.updated_at)])]

\* One line of the artifact executed; comments and blank lines do nothing.
ApplyLine(store, line) ==
    CASE line.kind = "insert_user" -> ApplyUserInsert(store, line)
      [] line.kind = "insert_wallet" -> ApplyWalletInsert(store, line)
      [] OTHER -> store

\* The whole artifact executed in order.
RECURSIVE ApplyAll(_, _)
ApplyAll(store, lines) ==
    IF lines = <<>> THEN store
    ELSE ApplyAll(ApplyLine(store, Head(lines)), Tail(lines))

\* The next line of the written artifact is executed.
ApplyStatement ==
    /\ pc = "exited"
    /\ outputFile # NoFile
    /\ applyPos < Len(outputFile)
    /\ d1' = ApplyLine(d1, outputFile[applyPos + 1])
    /\ applyPos' = applyPos + 1
    /\ applyPass' = IF applyPass = 0 THEN 1 ELSE applyPass
    /\ UNCHANGED <<env, pc, exitCode, uncaught, entropy, proc, legacy, rows, idx,
                   sqlStatements, migrated, skipped, outputFile, console, events,
                   d1Start>>
    /\ UNCHANGED <<call, dashboard>>

\* The first application has ended, after all lines or after a prefix of
\* them, and the same artifact is applied again from its first line.
Reapply ==
    /\ pc = "exited"
    /\ outputFile # NoFile
    /\ applyPass = 1
    /\ applyPos' = 0
    /\ applyPass' = 2
    /\ UNCHANGED <<env, pc, exitCode, uncaught, entropy, d1, proc, legacy, rows,
                   idx, sqlStatements, migrated, skipped, outputFile, console,
                   events, d1Start>>
    /\ UNCHANGED <<call, dashboard>>

-----------------------------------------------------------------------------
(* Initial states of a run. *)

\* A users row and a wallets row of the destination store, as the worker
\* creates them: the wallet's key sealed by encryptJwk under the key in use.
ProdUser(tag, email) ==
    [id |-> <<"user-", tag>>, email |-> email, name |-> <<"P", tag>>,
     github_id |-> Null, google_id |-> Null,
     created_at |-> TimeText(0), updated_at |-> TimeText(0)]

ProdWallet(tag, address, key, jwk, r) ==
    LET sealed == encryptJwk(jwk, key, RandomBytes(SALT_LENGTH, r),
                             RandomBytes(IV_LENGTH, r + 1))
    IN  [id |-> <<"wallet-", tag>>, user_id |-> <<"user-", tag>>,
         address |-> address, encrypted_jwk |-> sealed.encrypted,
         salt |-> sealed.salt,
         created_at |-> TimeText(0), updated_at |-> TimeText(0)]

\* Wallets a run can find: sealed under either master key, one of them a
\* key that carries n, e and d but no kty (the row loop migrates such keys).
SampleWallets ==
    << ProdWallet("1", <<"addr-1">>, <<"k">>, ValidJwk, 0),
       ProdWallet("2", <<"addr-2">>, <<"q">>, ValidJwk, 1),
       ProdWallet("3", <<"addr-3">>, <<"k">>, JwkNoKty, 2) >>

RECURSIVE SubSeq_(_, _, _)
SubSeq_(s, keep, i) ==
    IF i > Len(s) THEN <<>>
    ELSE (IF i \in keep THEN <<s[i]>> ELSE <<>>) \o SubSeq_(s, keep, i + 1)

RunStores ==
    {[users |-> (IF extra THEN <<ProdUser("0", <<"a">>)>> ELSE <<>>)
                \o [i \in 1..Cardinality(keep) |->
                      LET w == SubSeq_(SampleWallets, keep, 1)[i]
                      IN  ProdUser(w.id[2], <<"owner-", w.id[2]>>)],
      wallets |-> SubSeq_(SampleWallets, keep, 1)] :
        keep \in {k \in SUBSET (1..3) : Cardinality(k) <= 2}, extra \in BOOLEAN}

\* Payloads of legacy wallets, with the wallet's encrypted flag.
RunPayloads ==
    {<<<<>>, 0>>, <<InvalidJson, 0>>, <<JsonText(Null), 0>>,
     <<JsonText(JwkNoD), 0>>, <<JsonText(ValidJwk), 0>>, <<JsonText(ValidJwk), 1>>}

RunLegacyStores ==
    UNION {
        {{LegacyRecord(t, <<Letters[t]>>, <<"addr-", Letters[t]>>, f[t][1], f[t][2]) :
            t \in times} : f \in [times -> RunPayloads]} :
        times \in SUBSET (1..MaxRows)}

Init ==
    /\ env \in {Undefined, <<>>} \cup MasterKeys
    /\ pc = "start"
    /\ exitCode = -1
    /\ uncaught = NoError
    /\ entropy \in 3..(3 + MaxSeed)
    /\ d1 \in RunStores
    /\ proc = NoProc
    /\ legacy \in RunLegacyStores
    /\ rows = <<>>
    /\ idx = 0
    /\ sqlStatements = <<>>
    /\ migrated = 0
    /\ skipped = 0
    /\ outputFile = NoFile
    /\ console = <<>>
    /\ events = <<>>
    /\ d1Start = d1
    /\ applyPos = 0
    /\ applyPass = 0
    /\ call = NoCall
    /\ dashboard = NoDashboard

Next ==
    \/ CheckEnv
    \/ SelfTest
    \/ SpawnQuery
    \/ AwaitQuery
    \/ OpenLegacy
    \/ ProcessRow
    \/ WriteArtifact

Spec == Init /\ [][Next]_vars

-----------------------------------------------------------------------------
(* A run with the right key followed by the application of its artifact. *)

\* Destination stores: empty, or holding a user, or a user and the wallet
\* the worker sealed for that user.
ApplyStores ==
    {[users |-> <<>>, wallets |-> <<>>],
     [users |-> <<ProdUser("1", <<"a">>)>>, wallets |-> <<>>],
     [users |-> <<ProdUser("1", <<"a">>)>>,
      wallets |-> <<ProdWallet("1", <<"x">>, <<"k">>, ValidJwk, 0)>>]}

ApplyEmails == {<<>>, <<"a">>, <<"b">>}
ApplyAddresses == {<<>>, <<"x">>, <<"y">>}

\* Legacy stores of unencrypted wallets with valid keys; the email and the
\* wallet address of a record may be empty.
ApplyLegacyStores(most) ==
    UNION {
        {{LegacyRecord(t, f[t][1], f[t][2], JsonText(ValidJwk), 0) : t \in times} :
            f \in [times -> ApplyEmails \X ApplyAddresses]} :
        times \in SUBSET (1..most)}

ApplyInit ==
    /\ env = <<"k">>
    /\ pc = "start"
    /\ exitCode = -1
    /\ uncaught = NoError
    /\ entropy = 3
    /\ d1 \in ApplyStores
    /\ proc = NoProc
    /\ legacy \in ApplyLegacyStores(MaxApplyRows)
    /\ rows = <<>>
    /\ idx = 0
    /\ sqlStatements = <<>>
    /\ migrated = 0
    /\ skipped = 0
    /\ outputFile = NoFile
    /\ console = <<>>
    /\ events = <<>>
    /\ d1Start = d1
    /\ applyPos = 0
    /\ applyPass = 0
    /\ call = NoCall
    /\ dashboard = NoDashboard

ApplyNext ==
    \/ CheckEnv
    \/ SelfTest
    \/ SpawnQuery
    \/ AwaitQuery
    \/ OpenLegacy
    \/ ProcessRow
    \/ WriteArtifact
    \/ ApplyStatement
    \/ Reapply

ApplySpec == ApplyInit /\ [][ApplyNext]_vars

-----------------------------------------------------------------------------
(* A run over legacy users with external auths (lines 265-270, 328-330). *)

\* providerId of the user's github and google rows in _externalAuths: NULL
\* without such a row, else the stored text.
GithubIds == {Null, <<>>, <<"4", "2">>, <<"a", "b", "c">>, <<"7", "x">>}
GoogleIds == {Null, <<>>, <<"1", "0", "8">>, <<"g", "'", "1">>}

AuthLegacyStores(most) ==
    UNION {
        {{[LegacyRecord(t, <<Letters[t]>>, <<"addr-", Letters[t]>>,
                        JsonText(ValidJwk), 0)
              EXCEPT !.github_id = f[t][1], !.google_id = f[t][2]] : t \in times} :
            f \in [times -> GithubIds \X GoogleIds]} :
        times \in SUBSET (1..most)}

AuthInit ==
    /\ env = <<"k">>
    /\ pc = "start"
    /\ exitCode = -1
    /\ uncaught = NoError
    /\ entropy = 3
    /\ d1 = [users |-> <<>>, wallets |-> <<>>]
    /\ proc = NoProc
    /\ legacy \in AuthLegacyStores(MaxAuthRows)
    /\ rows = <<>>
    /\ idx = 0
    /\ sqlStatements = <<>>
    /\ migrated = 0
    /\ skipped = 0
    /\ outputFile = NoFile
    /\ console = <<>>
    /\ events = <<>>
    /\ d1Start = d1
    /\ applyPos = 0
    /\ applyPass = 0
    /\ call = NoCall
    /\ dashboard = NoDashboard

AuthSpec == AuthInit /\ [][Next]_vars

-----------------------------------------------------------------------------
(* A run whose production query returns a damaged wallets row
   (lines 178-206). *)

\* The wallet the worker sealed under k, and the same row with a ciphertext
\* that is not base64, with a salt that is not base64, and with a blob that
\* is shorter than the nonce.
DamagedWallets ==
    LET w == ProdWallet("1", <<"addr-1">>, <<"k">>, ValidJwk, 0)
    IN  {w,
         [w EXCEPT !.encrypted_jwk = <<"%", "not base64", "%">>],
         [w EXCEPT !.salt = <<"%", "not base64", "%">>],
         [w EXCEPT !.encrypted_jwk = btoa(ShortBlob)]}

LiveStores ==
    {[users |-> <<ProdUser("1", <<"owner-1">>)>>, wallets |-> <<w>>] :
        w \in DamagedWallets}

LiveLegacyStores ==
    UNION {
        {{LegacyRecord(t, <<Letters[t]>>, <<"addr-", Letters[t]>>, f[t][1], f[t][2]) :
            t \in times} : f \in [times -> RunPayloads]} :
        times \in SUBSET (1..MaxLiveRows)}

LiveInit ==
    /\ env \in MasterKeys
    /\ pc = "start"
    /\ exitCode = -1
    /\ uncaught = NoError
    /\ entropy = 3
    /\ d1 \in LiveStores
    /\ proc = NoProc
    /\ legacy \in LiveLegacyStores
    /\ rows = <<>>
    /\ idx = 0
    /\ sqlStatements = <<>>
    /\ migrated = 0
    /\ skipped = 0
    /\ outputFile = NoFile
    /\ console = <<>>
    /\ events = <<>>
    /\ d1Start = d1
    /\ applyPos = 0
    /\ applyPass = 0
    /\ call = NoCall
    /\ dashboard = NoDashboard

LiveSpec == LiveInit /\ [][Next]_vars

-----------------------------------------------------------------------------
(* encryptJwk followed by decryptJwk, for any key value and any two master
   keys. *)

\* Line 115 or 326: encryptJwk is called on the value with the first key.
CallEncryptJwk ==
    /\ call.stage = "args"
    /\ call' = [stage |-> "sealed", jwk |-> call.jwk, sealKey |-> call.sealKey,
                openKey |-> call.openKey, seed |-> call.seed,
                sealed |-> encryptJwk(call.jwk, call.sealKey,
                                      RandomBytes(SALT_LENGTH, call.seed),
                                      RandomBytes(IV_LENGTH, call.seed + 1))]
    /\ UNCHANGED <<env, pc, exitCode, uncaught, entropy, d1, proc, legacy, rows,
                   idx, sqlStatements, migrated, skipped, outputFile, console,
                   events, d1Start, applyPos, applyPass, dashboard>>

\* Line 116 or 179: decryptJwk is called on the pair with the second key.
CallDecryptJwk ==
    /\ call.stage = "sealed"
    /\ call' = [stage |-> "opened", jwk |-> call.jwk, sealKey |-> call.sealKey,
                openKey |-> call.openKey, seed |-> call.seed,
                sealed |-> call.sealed,
                result |-> decryptJwk(call.sealed.encrypted, call.sealed.salt,
                                      call.openKey)]
    /\ UNCHANGED <<env, pc, exitCode, uncaught, entropy, d1, proc, legacy, rows,
                   idx, sqlStatements, migrated, skipped, outputFile, console,
                   events, d1Start, applyPos, applyPass, dashboard>>

CryptoInit ==
    /\ env = Undefined
    /\ pc = "start"
    /\ exitCode = -1
    /\ uncaught = NoError
    /\ entropy = 0
    /\ d1 = [users |-> <<>>, wallets |-> <<>>]
    /\ proc = NoProc
    /\ legacy = {}
    /\ rows = <<>>
    /\ idx = 0
    /\ sqlStatements = <<>>
    /\ migrated = 0
    /\ skipped = 0
    /\ outputFile = NoFile
    /\ console = <<>>
    /\ events = <<>>
    /\ d1Start = d1
    /\ applyPos = 0
    /\ applyPass = 0
    /\ dashboard = NoDashboard
    /\ \E jwk \in JsonValues, sealKey \in MasterKeys, openKey \in MasterKeys,
          seed \in 0..(MaxSeed + 1) :
         call = [stage |-> "args", jwk |-> jwk, sealKey |-> sealKey,
                 openKey |-> openKey, seed |-> seed]

CryptoNext ==
    \/ CallEncryptJwk
    \/ CallDecryptJwk

CryptoSpec == CryptoInit /\ [][CryptoNext]_vars

-----------------------------------------------------------------------------
(* The three awaits of lines 152-154 step by step: the subprocess writes
   chunks to its stdout and stderr pipes, the script reads stdout to its end,
   then stderr to its end, then awaits the exit.  A pipe holds PipeCapacity
   chunks; a write to a full pipe blocks the subprocess. *)

\* What the subprocess does before it exits: a sequence of writes, each of
\* one chunk to "out" or to "err".
RECURSIVE Programs(_)
Programs(n) ==
    IF n = 0 THEN {<<>>}
    ELSE Programs(n - 1)
         \cup {Append(p, w) : p \in {q \in Programs(n - 1) : Len(q) = n - 1},
                              w \in {"out", "err"}}

\* The subprocess as Bun.spawn returns it (lines 133-150): both streams piped
\* and empty.
Child(program) ==
    [state |-> "running", program |-> program, alive |-> TRUE,
     stdoutPipe |-> 0, stderrPipe |-> 0]

PipeOf(w) == IF w = "out" THEN "stdoutPipe" ELSE "stderrPipe"

\* The subprocess performs its next write when the pipe has room, and exits,
\* closing its ends of both pipes, when nothing is left to write.
ChildStep ==
    /\ pc \in {"await_stdout", "await_stderr", "await_exited"}
    /\ proc.alive
    /\ IF proc.program = <<>>
       THEN proc' = [proc EXCEPT !.alive = FALSE]
       ELSE /\ proc[PipeOf(Head(proc.program))] < PipeCapacity
            /\ proc' = [proc EXCEPT ![PipeOf(Head(proc.program))] = @ + 1,
                                    !.program = Tail(@)]
    /\ UNCHANGED <<env, pc, exitCode, uncaught, entropy, d1, legacy, rows, idx,
                   sqlStatements, migrated, skipped, outputFile, console, events,
                   d1Start, applyPos, applyPass, call, dashboard>>

\* The runtime may move chunks of a piped stream into memory before the
\* script reads that stream; the script asks for nothing of the kind.
RuntimeDrains ==
    /\ pc \in {"await_stdout", "await_stderr", "await_exited"}
    /\ \E w \in {"out", "err"} :
         /\ proc[PipeOf(w)] > 0
         /\ proc' = [proc EXCEPT ![PipeOf(w)] = @ - 1]
    /\ UNCHANGED <<env, pc, exitCode, uncaught, entropy, d1, legacy, rows, idx,
                   sqlStatements, migrated, skipped, outputFile, console, events,
                   d1Start, applyPos, applyPass, call, dashboard>>

\* await new Response(stream).text(): take a chunk when there is one, and
\* resolve at the end of the stream (the writer gone, the pipe empty).
ReadToEnd(pipe, next) ==
    \/ /\ proc[pipe] > 0
       /\ proc' = [proc EXCEPT ![pipe] = @ - 1]
       /\ UNCHANGED pc
    \/ /\ proc[pipe] = 0
       /\ ~proc.alive
       /\ pc' = next
       /\ UNCHANGED proc

\* Line 152.
ReadStdout ==
    /\ pc = "await_stdout"
    /\ ReadToEnd("stdoutPipe", "await_stderr")
    /\ UNCHANGED <<env, exitCode, uncaught, entropy, d1, legacy, rows, idx,
                   sqlStatements, migrated, skipped, outputFile, console, events,
                   d1Start, applyPos, applyPass, call, dashboard>>

\* Line 153.
ReadStderr ==
    /\ pc = "await_stderr"
    /\ ReadToEnd("stderrPipe", "await_exited")
    /\ UNCHANGED <<env, exitCode, uncaught, entropy, d1, legacy, rows, idx,
                   sqlStatements, migrated, skipped, outputFile, console, events,
                   d1Start, applyPos, applyPass, call, dashboard>>

\* Lines 154-206: proc.exited resolves and the outcome is evaluated.
AwaitExited ==
    /\ pc = "await_exited"
    /\ ~proc.alive
    /\ \E outcome \in QueryOutcomes(d1) : EvaluateOutcome(outcome)
    /\ UNCHANGED <<env, entropy, d1, legacy, rows, idx, sqlStatements, migrated,
                   skipped, outputFile, d1Start, applyPos, applyPass, call, dashboard>>

\* The state in which Bun.spawn has returned.
PipeInit ==
    /\ env \in MasterKeys
    /\ pc = "await_stdout"
    /\ exitCode = -1
    /\ uncaught = NoError
    /\ entropy = 5
    /\ d1 \in RunStores
    /\ proc \in {Child(program) : program \in Programs(MaxWrites)}
    /\ legacy = {}
    /\ rows = <<>>
    /\ idx = 0
    /\ sqlStatements = <<>>
    /\ migrated = 0
    /\ skipped = 0
    /\ outputFile = NoFile
    /\ console = <<"Round-trip self-test passed">>
    /\ events = <<"selftest", "query">>
    /\ d1Start = d1
    /\ applyPos = 0
    /\ applyPass = 0
    /\ call = NoCall
    /\ dashboard = NoDashboard

PipeNext ==
    \/ ChildStep
    \/ RuntimeDrains
    \/ ReadStdout
    \/ ReadStderr
    \/ AwaitExited

\* The subprocess and the script each take their next step when they can;
\* nothing obliges the runtime to drain a stream the script is not reading.
PipeSpec ==
    /\ PipeInit
    /\ [][PipeNext]_vars
    /\ WF_vars(ChildStep)
    /\ WF_vars(ReadStdout)
    /\ WF_vars(ReadStderr)
    /\ WF_vars(AwaitExited)

-----------------------------------------------------------------------------
(* The dashboard app (worker, dashboard routes): the auth middleware, the
   session token, login, logout and the user listing.  A 32-bit integer is a
   pair <<high half, low half>> of 16-bit halves, so that the hash wraps as
   `| 0` makes it wrap. *)

\* str.charCodeAt(i) for the characters of the model.
LowerCase ==
    <<"a", "b", "c", "d", "e", "f", "g", "h", "i", "j", "k", "l", "m",
      "n", "o", "p", "q", "r", "s", "t", "u", "v", "w", "x", "y", "z">>
CharCode(c) ==
    IF c = ":" THEN 58
    ELSE 96 + (CHOOSE i \in 1..Len(LowerCase) : LowerCase[i] = c)

\* hash = ((hash << 5) - hash + char) | 0 on the bits of hash.
HashStep(hash, char) ==
    LET shifted == <<(hash[1] * 32 + hash[2] \div 2048) % 65536,
                     (hash[2] * 32) % 65536>>
        low == shifted[2] - hash[2] + char
        carry == IF low < 0 THEN -1 ELSE low \div 65536
    IN  <<(shifted[1] - hash[1] + carry + 65536) % 65536, (low + 65536) % 65536>>

\* The loop of lines 48-51 over the characters of str, from hash.  Each turn
\* binds the value of the step (next), so that the turns do not nest.
RECURSIVE HashString(_, _)
HashString(str, hash) ==
    IF str = <<>> THEN hash
    ELSE CHOOSE result \in
             {HashString(Tail(str), next) :
                  next \in {HashStep(hash, CharCode(Head(str)))}} : TRUE

\* Math.abs(hash) of the signed reading of the bits.
MathAbs(hash) ==
    IF hash[1] < 32768 THEN hash
    ELSE <<(65535 - hash[1] + (IF hash[2] = 0 THEN 1 ELSE 0)) % 65536,
           (65536 - hash[2]) % 65536>>

\* n.toString(36) for a non-negative n.
Digits36 ==
    <<"0", "1", "2", "3", "4", "5", "6", "7", "8", "9">> \o LowerCase
RECURSIVE ToString36(_)
ToString36(n) ==
    LET rest == (n[1] % 36) * 65536 + n[2]
        quotient == <<n[1] \div 36, rest \div 36>>
        digit == <<Digits36[(rest % 36) + 1]>>
    IN  IF quotient = <<0, 0>> THEN digit ELSE ToString36(quotient) \o digit

\* Lines 43-53.
generateSessionToken(password) ==
    ToString36(MathAbs(HashString(
        <<"d", "a", "s", "h", "b", "o", "a", "r", "d", ":">> \o password
        \o <<":", "s", "e", "s", "s", "i", "o", "n">>, <<0, 0>>)))

\* The values of DASHBOARD_PASSWORD of the model, and generateSessionToken on
\* them, computed once.
Passwords == {<<>>, <<"a">>, <<"b">>, <<"a", "b">>}
SessionTokens == [password \in Passwords |-> generateSessionToken(password)]

\* Faulty variant: any non-empty cookie passes.
AuthPassesAnyToken(path, token, password) ==
    \/ path = "/dashboard/login"
    \/ Truthy(token)

\* Lines 32-41: the middleware calls next() for the request.
AuthPasses(path, token, password) ==
    \/ path = "/dashboard/login"
    \/ ~(~Truthy(token) \/ token # SessionTokens[password])

\* The handler of a request that passed the middleware (lines 57-102).
Route(method, path) ==
    CASE method = "GET" /\ path = "/dashboard/login" -> "loginPage"
      [] method = "POST" /\ path = "/dashboard/login" -> "login"
      [] method = "GET" /\ path = "/dashboard/logout" -> "logout"
      [] method = "GET" /\ path = "/dashboard" -> "index"
      [] OTHER -> "notFound"

NoCookie == [op |-> "none"]
Redirect(location, setCookie, ran) ==
    [status |-> 302, location |-> location, setCookie |-> setCookie, ran |-> ran]
Page(status, ran) ==
    [status |-> status, location |-> "", setCookie |-> NoCookie, ran |-> ran]

\* Faulty variant: every login issues a token of its own.
PostLoginTokenPerLogin(password, app) ==
    IF password = Undefined \/ password # app.password
    THEN Redirect("/dashboard/login?error=1", NoCookie, "login")
    ELSE Redirect("/dashboard",
                  [op |-> "set",
                   value |-> generateSessionToken(
                                 app.password \o [i \in 1..Len(app.issued) |-> "x"])],
                  "login")

\* Lines 62-79; a body without a text field password is Undefined.
PostLogin(password, app) ==
    IF password = Undefined \/ password # app.password
    THEN Redirect("/dashboard/login?error=1", NoCookie, "login")
    ELSE Redirect("/dashboard",
                  [op |-> "set", value |-> SessionTokens[app.password]],
                  "login")

\* Lines 32-102: the response to one request.
Respond(method, path, token, password, app) ==
    IF ~AuthPasses(path, token, app.password)
    THEN Redirect("/dashboard/login", NoCookie, "none")
    ELSE CASE Route(method, path) = "loginPage" -> Page(200, "loginPage")
           [] Route(method, path) = "login" -> PostLogin(password, app)
           [] Route(method, path) = "logout" ->
                Redirect("/dashboard/login", [op |-> "delete"], "logout")
           [] Route(method, path) = "index" -> Page(200, "index")
           [] OTHER -> Page(404, "notFound")

\* The cookie values and the requests to other routes of the model.
CookieValues ==
    {Undefined, <<>>, <<"0">>} \cup {SessionTokens[p] : p \in Passwords}
OtherRequests ==
    {<<"GET", "/dashboard/login/">>, <<"GET", "/dashboard/users">>,
     <<"POST", "/dashboard">>, <<"POST", "/dashboard/logout">>}

\* One request served: the exchange is recorded, the browser applies the
\* Set-Cookie of the response, issued tokens and logouts are counted.
Serve(method, path, token, password) ==
    LET r == Respond(method, path, token, password, dashboard)
    IN  /\ r.setCookie.op = "set" => Len(dashboard.issued) < MaxLogins
        /\ r.ran = "logout" => dashboard.logouts < MaxLogouts
        /\ dashboard' =
             [password |-> dashboard.password,
              jar |-> CASE r.setCookie.op = "set" -> r.setCookie.value
                        [] r.setCookie.op = "delete" -> Undefined
                        [] OTHER -> dashboard.jar,
              issued |-> IF r.setCookie.op = "set"
                         THEN Append(dashboard.issued, r.setCookie.value)
                         ELSE dashboard.issued,
              logouts |-> dashboard.logouts + (IF r.ran = "logout" THEN 1 ELSE 0),
              last |-> [method |-> method, path |-> path, token |-> token,
                        password |-> password, response |-> r]]
        /\ UNCHANGED <<env, pc, exitCode, uncaught, entropy, d1, proc, legacy,
                       rows, idx, sqlStatements, migrated, skipped, outputFile,
                       console, events, d1Start, applyPos, applyPass, call>>

GetLogin ==
    \E token \in CookieValues :
        Serve("GET", "/dashboard/login", token, Undefined)
PostLoginRequest ==
    \E token \in CookieValues, password \in Passwords \cup {Undefined} :
        Serve("POST", "/dashboard/login", token, password)
GetLogout ==
    \E token \in CookieValues : Serve("GET", "/dashboard/logout", token, Undefined)
GetDashboard ==
    \E token \in CookieValues : Serve("GET", "/dashboard", token, Undefined)
OtherRequest ==
    \E token \in CookieValues, req \in OtherRequests :
        Serve(req[1], req[2], token, Undefined)

DashInit ==
    /\ env = Undefined
    /\ pc = "start"
    /\ exitCode = -1
    /\ uncaught = NoError
    /\ entropy = 0
    /\ d1 = [users |-> <<>>, wallets |-> <<>>]
    /\ proc = NoProc
    /\ legacy = {}
    /\ rows = <<>>
    /\ idx = 0
    /\ sqlStatements = <<>>
    /\ migrated = 0
    /\ skipped = 0
    /\ outputFile = NoFile
    /\ console = <<>>
    /\ events = <<>>
    /\ d1Start = d1
    /\ applyPos = 0
    /\ applyPass = 0
    /\ call = NoCall
    /\ \E password \in Passwords :
         dashboard = [password |-> password, jar |-> Undefined, issued |-> <<>>,
                      logouts |-> 0, last |-> [method |-> "none"]]

DashNext ==
    \/ GetLogin
    \/ PostLoginRequest
    \/ GetLogout
    \/ GetDashboard
    \/ OtherRequest

DashSpec == DashInit /\ [][DashNext]_vars

-----------------------------------------------------------------------------
(* Observers used by the properties. *)

Has(seq, x) == \E i \in 1..Len(seq) : seq[i] = x
Range(seq) == {seq[i] : i \in 1..Len(seq)}

\* The master key a stored wallet was sealed under, and the key it holds.
SealedUnder(w) == atob(w.encrypted_jwk).value[IV_LENGTH + 1][2][2]
SealedJwk(w) == JSON_parse(atob(w.encrypted_jwk).value[IV_LENGTH + 1][4]).value
HasAllMembers(jwk) ==
    \A f \in {"kty", "n", "e", "d"} : Truthy(Member(jwk, f).value)
CanDecrypt(w, masterKey) == decryptJwk(w.encrypted_jwk, w.salt, masterKey).ok

\* The production query exited with code 0 and returned wallet w.
QueryReturned(w) ==
    /\ proc.state = "exited"
    /\ proc.exitCode = 0
    /\ proc.stdout.parses
    /\ proc.stdout.results
    /\ proc.stdout.rows = <<w>>

Proceeded == pc = "open" \/ Has(events, "open")
NoWriteSideWork == ~Has(events, "row") /\ outputFile = NoFile
AbortedBeforeRows ==
    /\ pc = "exited"
    /\ exitCode > 0
    /\ ~Has(events, "open")
    /\ rows = <<>>
    /\ NoWriteSideWork

-----------------------------------------------------------------------------
(* Properties of the validation gate. *)

C3_FatalBeforeWrite ==
    /\ (pc # "start" /\ (env = Undefined \/ env = <<>>)) => AbortedBeforeRows
    /\ Has(console, "Round-trip self-test FAILED") => AbortedBeforeRows
    /\ \A w \in Range(d1.wallets) :
         (QueryReturned(w) /\ ~CanDecrypt(w, env)) => AbortedBeforeRows

C3_Witness ==
    /\ Has(console, "Round-trip self-test FAILED")
    /\ pc = "exited"
    /\ exitCode = 1

\* C4: the self-test completes before the production query is issued, live
\* validation completes before the legacy store is opened, a row is
\* transformed or the artifact is written, and no run skips the self-test.
C4_Ordering ==
    /\ \A i \in 1..Len(events) :
         /\ events[i] = "query" => \E j \in 1..(i - 1) : events[j] = "selftest"
         /\ events[i] \in {"open", "row", "write"} =>
                \E j \in 1..(i - 1) : events[j] = "live"
         /\ events[i] = "live" => \E j \in 1..(i - 1) : events[j] = "query"
    /\ events # <<>> => events[1] = "selftest"
    /\ pc \in {"spawn", "await", "open", "loop"} => Has(events, "selftest")
    /\ pc \in {"open", "loop"} => Has(events, "live")
    /\ outputFile # NoFile => Has(events, "live")

C4_Witness ==
    /\ outputFile # NoFile
    /\ Has(events, "row")
    /\ Has(console, "Encryption key is valid")

-----------------------------------------------------------------------------
(* Properties of the row loop and the artifact. *)

\* The interpolated values of an artifact line.
LineTokens(line) ==
    CASE line.kind = "insert_user" ->
           {line.id, line.email, line.name, line.github_id, line.google_id,
            line.created_at, line.updated_at, line.unless_email}
      [] line.kind = "insert_wallet" ->
           {line.id, line.user_of_email, line.address, line.encrypted_jwk,
            line.salt, line.created_at, line.updated_at,
            line.unless_wallet_of_email, line.unless_address}
      [] line.kind = "comment" /\ line.text = "User" ->
           {line.email, line.legacy_id}
      [] OTHER -> {}

\* secret occurs in token as a run of consecutive characters.
Occurs(secret, token) ==
    \E i \in 0..(Len(token) - Len(secret)) :
        \A j \in 1..Len(secret) : token[i + j] = secret[j]

\* The private members of the key a row carries.
PrivateMembers(row) ==
    LET parsed == JSON_parse(row.regular_jwk)
    IN  IF parsed.ok /\ parsed.value # Null /\ Truthy(Member(parsed.value, "d").value)
        THEN {Member(parsed.value, "d").value}
        ELSE {}

IsCommentFor(line, row) ==
    line.kind = "comment" /\ line.text = "User" /\ line.legacy_id = row.user_id

\* The results encryptJwk can return for the key of row.
SealedResults(row, masterKey) ==
    {encryptJwk(JSON_parse(row.regular_jwk).value, masterKey,
                RandomBytes(SALT_LENGTH, r), RandomBytes(IV_LENGTH, r + 1)) :
        r \in 0..MaxEntropy}

Artifacts == {sqlStatements} \cup (IF outputFile = NoFile THEN {} ELSE {outputFile})

\* C7: no line of the artifact contains a row's plaintext regular_jwk or a
\* private member of it; the key material of a wallet insert is the
\* ciphertext and the salt that encryptJwk returned for the row's key.
C7_NoPlaintextKey ==
    \A lines \in Artifacts : \A i \in 1..Len(lines) :
        /\ \A token \in LineTokens(lines[i]) : \A k \in 1..Len(rows) :
             /\ ~Occurs(rows[k].regular_jwk, token)
             /\ \A secret \in PrivateMembers(rows[k]) : ~Occurs(secret, token)
        /\ lines[i].kind = "insert_wallet" =>
             \E k \in 1..Len(rows) :
                 /\ IsCommentFor(lines[i - 2], rows[k])
                 /\ \E sealed \in SealedResults(rows[k], env) :
                      /\ lines[i].encrypted_jwk = sqlEscape(sealed.encrypted)
                      /\ lines[i].salt = sqlEscape(sealed.salt)

C7_Witness ==
    /\ outputFile # NoFile
    /\ \E i \in 1..Len(outputFile) : outputFile[i].kind = "insert_wallet"

\* C8 as stated: no single legacy row aborts the run: whatever the rows
\* hold, every row is either skipped and counted or emitted, and the artifact
\* is written.
C8_NoRowAbortsRun ==
    (pc = "exited" /\ Len(rows) > 0) =>
        /\ exitCode = 0
        /\ outputFile # NoFile
        /\ migrated + skipped = Len(rows)

RowInvalidJson(row) == ~JSON_parse(row.regular_jwk).ok
RowLacksMember(row) ==
    LET parsed == JSON_parse(row.regular_jwk)
    IN  /\ parsed.ok
        /\ parsed.value # Null
        /\ \E f \in {"n", "e", "d"} : ~Truthy(Member(parsed.value, f).value)
RowValid(row) ==
    LET parsed == JSON_parse(row.regular_jwk)
    IN  /\ parsed.ok
        /\ parsed.value # Null
        /\ \A f \in {"n", "e", "d"} : Truthy(Member(parsed.value, f).value)

\* The rows whose iteration has completed.
Processed == 1..(idx - 1)
Malformed(k) == RowInvalidJson(rows[k]) \/ RowLacksMember(rows[k])

\* C9: a row whose payload is invalid JSON, or whose parsed key lacks a
\* non-empty n, e or d, is counted as skipped and contributes no line, and
\* the valid rows before and after it are emitted.
C9_SkipMalformed ==
    /\ skipped = Cardinality({k \in Processed : Malformed(k)})
    /\ \A k \in Processed :
         /\ Malformed(k) =>
              \A i \in 1..Len(sqlStatements) :
                  /\ ~IsCommentFor(sqlStatements[i], rows[k])
                  /\ \A token \in LineTokens(sqlStatements[i]) :
                         ~Occurs(rows[k].user_id, token)
         /\ RowValid(rows[k]) =>
              \E i \in 1..Len(sqlStatements) :
                  /\ IsCommentFor(sqlStatements[i], rows[k])
                  /\ sqlStatements[i + 1].kind = "insert_user"
                  /\ sqlStatements[i + 2].kind = "insert_wallet"
    /\ idx > 0 =>
         Len(sqlStatements) = 4 + 4 * Cardinality({k \in Processed : RowValid(rows[k])})
    /\ outputFile # NoFile =>
         /\ outputFile = sqlStatements
         /\ Processed = 1..Len(rows)

C9_Witness ==
    /\ outputFile # NoFile
    /\ Len(rows) = 2
    /\ Malformed(1)
    /\ RowValid(rows[2])
    /\ skipped = 1

\* The statement pairs of an artifact, and the records that have one.
NumPairs(lines) ==
    Cardinality({i \in 1..Len(lines) :
        /\ lines[i].kind = "insert_user"
        /\ i < Len(lines)
        /\ lines[i + 1].kind = "insert_wallet"})
Emitted(rec) == \E i \in 1..Len(outputFile) : IsCommentFor(outputFile[i], rec)

\* C10 as stated: the reported skipped count is the number of
\* unencrypted-wallet legacy records that are not emitted, records with an
\* empty key payload included, and the migrated count is the number of
\* statement pairs.
C10_CountsEmptyPayload ==
    (pc = "exited" /\ outputFile # NoFile) =>
        /\ skipped = Cardinality({rec \in legacy : rec.encrypted = 0 /\ ~Emitted(rec)})
        /\ migrated = NumPairs(outputFile)

\* C10 amended: the reported skipped count is the number of legacy records
\* the query returns (unencrypted wallet, key payload neither NULL nor
\* empty) that are not emitted; records with an empty key payload are not
\* read and counted nowhere; the migrated count is the number of statement
\* pairs, pairs for records whose email exists in the destination included.
C10_Counts ==
    (pc = "exited" /\ outputFile # NoFile) =>
        /\ skipped = Cardinality({rec \in legacy :
                                    /\ rec.encrypted = 0
                                    /\ rec.regular_jwk # Null
                                    /\ rec.regular_jwk # <<>>
                                    /\ ~Emitted(rec)})
        /\ migrated = NumPairs(outputFile)
        /\ migrated = Cardinality({rec \in legacy : Emitted(rec)})
        /\ \A rec \in legacy : rec.regular_jwk = <<>> => ~Emitted(rec)

C10_Witness ==
    /\ pc = "exited"
    /\ outputFile # NoFile
    /\ skipped = 0
    /\ migrated = 1
    /\ \E rec \in legacy : rec.encrypted = 0 /\ rec.regular_jwk = <<>>
    /\ \E rec \in legacy : \E i \in 1..Len(d1.users) :
         Emitted(rec) /\ d1.users[i].email = rec.email

-----------------------------------------------------------------------------
(* Properties of the application of the artifact. *)

RowCount(table, row) == Cardinality({i \in 1..Len(table) : table[i] = row})
SameRows(a, b) ==
    \A row \in Range(a) \cup Range(b) : RowCount(a, row) = RowCount(b, row)

\* C5 as stated: applying the artifact and then applying it again, after all
\* of its statements or after any prefix of them, leaves exactly the user
\* rows and wallet rows of a single application.
C5_ReapplyIsNoOp ==
    (applyPass = 2 /\ applyPos = Len(outputFile)) =>
        LET once == ApplyAll(d1Start, outputFile)
        IN  /\ SameRows(d1.users, once.users)
            /\ SameRows(d1.wallets, once.wallets)

\* The value a legacy email or address is stored as.
Stored(value) == IF value = Null \/ value = <<>> THEN Null ELSE value

\* The legacy row a line of the artifact was emitted for.
RowOfLine(i) ==
    LET c == IF outputFile[i].kind = "insert_user" THEN i - 1 ELSE i - 2
    IN  CHOOSE k \in 1..Len(rows) : IsCommentFor(outputFile[c], rows[k])

\* C6 as stated: executing an emitted user insert adds nothing when the
\* destination holds a user with the row's email, and executing an emitted
\* wallet insert adds nothing when a wallet with the row's address exists,
\* rows whose email or address is empty (rendered NULL) included.
C6_NoUnconditionalInsert ==
    [][(applyPos' = applyPos + 1) =>
        LET line == outputFile[applyPos'] IN
        /\ (/\ line.kind = "insert_user"
            /\ \E i \in 1..Len(d1.users) :
                   d1.users[i].email = Stored(rows[RowOfLine(applyPos')].email))
           => d1'.users = d1.users
        /\ (/\ line.kind = "insert_wallet"
            /\ \E i \in 1..Len(d1.wallets) :
                   d1.wallets[i].address = Stored(rows[RowOfLine(applyPos')].wallet_address))
           => d1'.wallets = d1.wallets]_vars

-----------------------------------------------------------------------------
(* Properties of the outcomes of live validation. *)

SpawnFailed == pc = "exited" /\ Has(events, "query") /\ ~Has(events, "live")
QueryExitedNonZero == proc.state = "exited" /\ proc.exitCode # 0
QueryUnparseable ==
    proc.state = "exited" /\ proc.exitCode = 0 /\ ~proc.stdout.parses
QueryEmpty ==
    /\ proc.state = "exited"
    /\ proc.exitCode = 0
    /\ proc.stdout.parses
    /\ ~proc.stdout.results \/ proc.stdout.rows = <<>>
Warned ==
    \/ Has(console, "Could not query production DB")
    \/ Has(console, "No wallets found in production DB")

\* C11 as stated: when the production query cannot be started, exits with a
\* non-zero code or returns output that cannot be parsed, the run prints a
\* warning, skips live validation and proceeds to row processing.
C11_DegradeOnQueryFailure ==
    (SpawnFailed \/ QueryExitedNonZero \/ QueryUnparseable) =>
        (Warned /\ Proceeded /\ ~Has(events, "decrypt"))

\* The sampled wallet decrypts under the supplied key to a key with non-empty
\* kty, n, e and d.
SampleConfirmed ==
    \E w \in Range(d1.wallets) :
        /\ QueryReturned(w)
        /\ LET opened == decryptJwk(w.encrypted_jwk, w.salt, env)
           IN  opened.ok /\ HasAllMembers(opened.value)

\* C14: the statement pairs appear in the order of the rows the query
\* returned, which is ascending user creation time, skipped rows omitted; a
\* pair is its comment, its user insert, then its wallet insert; every pair
\* follows the four header lines.
C14_ArtifactOrder ==
    /\ \A k, l \in 1..Len(rows) :
         k < l => \E a, b \in legacy :
                     /\ a.user_id = rows[k].user_id
                     /\ b.user_id = rows[l].user_id
                     /\ a.created <= b.created
    /\ \A lines \in Artifacts \ {<<>>} :
         /\ Len(lines) >= 4
         /\ \A i \in 1..3 : lines[i].kind = "comment" /\ lines[i].text # "User"
         /\ lines[4].kind = "blank"
         /\ \A i \in 5..Len(lines) :
              /\ lines[i].kind = "comment" =>
                   /\ lines[i].text = "User"
                   /\ i + 3 <= Len(lines)
                   /\ lines[i + 1].kind = "insert_user"
                   /\ lines[i + 1].email = sqlEscape(lines[i].email)
                   /\ lines[i + 2].kind = "insert_wallet"
                   /\ lines[i + 2].user_of_email = sqlEscape(lines[i].email)
                   /\ lines[i + 3].kind = "blank"
              /\ lines[i].kind = "insert_user" => lines[i - 1].kind = "comment"
              /\ lines[i].kind = "insert_wallet" => lines[i - 1].kind = "insert_user"
              /\ lines[i].kind = "blank" => lines[i - 1].kind = "insert_wallet"
         /\ \A i, j \in 5..Len(lines) :
              (i < j /\ lines[i].kind = "comment" /\ lines[j].kind = "comment") =>
                  \E k, l \in 1..Len(rows) :
                      /\ k < l
                      /\ IsCommentFor(lines[i], rows[k])
                      /\ IsCommentFor(lines[j], rows[l])

C14_Witness ==
    /\ outputFile # NoFile
    /\ NumPairs(outputFile) = 2
    /\ Len(rows) = 2

\* C15: when validation lets the run proceed and the legacy query returns
\* zero rows, the process exits with code 0 and writes no artifact.
C15_NothingToMigrate ==
    (Has(events, "open") /\ rows = <<>>) =>
        /\ pc = "exited"
        /\ exitCode = 0
        /\ uncaught = NoError
        /\ outputFile = NoFile
        /\ sqlStatements = <<>>

C15_Witness ==
    /\ Has(events, "open")
    /\ rows = <<>>
    /\ legacy # {}
    /\ Has(console, "Nothing to migrate")

\* C17: when the production query succeeds with no wallet rows or no result
\* set, live validation prints its warning, attempts no decryption, and the
\* run proceeds to the legacy store.
C17_EmptyStoreSkips ==
    QueryEmpty =>
        /\ Has(console, "No wallets found in production DB")
        /\ ~Has(events, "decrypt")
        /\ Proceeded
        /\ ~(pc = "exited" /\ exitCode > 0 /\ ~Has(events, "open"))

C17_Witness ==
    /\ QueryEmpty
    /\ ~proc.stdout.results
    /\ Has(events, "row")

\* C18: an artifact is written only when the self-test passed and live
\* validation ended in exactly one of three ways: the sample decrypted with
\* kty, n, e and d present, the query returned no rows, or the query exited
\* with a non-zero code; after a spawn failure, unparseable output, a
\* decryption error or a sample with a missing member the process ends with
\* a non-zero code before any legacy row is read.
C18_ArtifactOnlyAfterValidation ==
    /\ outputFile # NoFile =>
         /\ Has(console, "Round-trip self-test passed")
         /\ Cardinality({c \in {"confirmed", "empty", "nonzero"} :
                \/ c = "confirmed" /\ SampleConfirmed
                \/ c = "empty" /\ QueryEmpty
                \/ c = "nonzero" /\ QueryExitedNonZero}) = 1
    /\ (\/ SpawnFailed
        \/ QueryUnparseable
        \/ Has(events, "decrypt") /\ ~SampleConfirmed) => AbortedBeforeRows

C18_Witness ==
    /\ QueryUnparseable
    /\ pc = "exited"
    /\ uncaught.name = "SyntaxError"

\* C19: after a successful decryption the run proceeds only when the
\* decrypted sample has non-empty kty, n, e and d; a sample that decrypts but
\* lacks one of them never lets the run reach the legacy store.
C19_ConfirmedNeedsAllMembers ==
    \A w \in Range(d1.wallets) :
        (QueryReturned(w) /\ CanDecrypt(w, env)) =>
            LET jwk == decryptJwk(w.encrypted_jwk, w.salt, env).value
            IN  /\ Has(console, "Encryption key is valid") <=> HasAllMembers(jwk)
                /\ Proceeded <=> HasAllMembers(jwk)
                /\ ~HasAllMembers(jwk) => AbortedBeforeRows

C19_Witness ==
    \E w \in Range(d1.wallets) :
        /\ QueryReturned(w)
        /\ CanDecrypt(w, env)
        /\ ~HasAllMembers(SealedJwk(w))
        /\ uncaught.message = "Decrypted production JWK is missing required fields"

-----------------------------------------------------------------------------
(* Properties of encryptJwk and decryptJwk. *)

\* C12: decryptJwk with the key that encryptJwk used returns the value that
\* was encrypted, and the split of the decoded blob at byte 12 gives back the
\* nonce and the ciphertext with its tag that encryptJwk concatenated.
C12_RoundTrip ==
    (call.stage = "opened" /\ call.openKey = call.sealKey) =>
        LET saltBytes == RandomBytes(SALT_LENGTH, call.seed)
            iv == RandomBytes(IV_LENGTH, call.seed + 1)
            combined == atob(call.sealed.encrypted)
        IN  /\ call.result.ok
            /\ call.result.value = call.jwk
            /\ combined.ok
            /\ Slice(combined.value, 0, IV_LENGTH) = iv
            /\ Slice(combined.value, IV_LENGTH, Len(combined.value)) =
                   AesGcmEncrypt(deriveKey(call.sealKey, saltBytes), iv,
                                 JSON_stringify(call.jwk))
            /\ atob(call.sealed.salt) = Ok(saltBytes)

C12_Witness ==
    /\ call.stage = "opened"
    /\ call.openKey = call.sealKey
    /\ call.jwk = ValidJwk
    /\ call.result = Ok(ValidJwk)

\* C13: decryptJwk with a master key other than the one encryptJwk used
\* fails with the cipher's authentication error and returns no value.
C13_WrongKeyFails ==
    (call.stage = "opened" /\ call.openKey # call.sealKey) =>
        /\ ~call.result.ok
        /\ call.result.error.name = "OperationError"

C13_Witness ==
    /\ call.stage = "opened"
    /\ call.openKey # call.sealKey
    /\ call.jwk = ValidJwk
    /\ ~call.result.ok

-----------------------------------------------------------------------------
(* Properties of the provider identifiers. *)

MaxLiteral == 999
IsIntegerLiteral(token) == \E n \in 0..MaxLiteral : token = <<ToString(n)>>

\* C16 as stated: in every user insert the github_id value is an integer
\* literal when the row's GitHub identifier is present, whatever its text,
\* and NULL when it is absent or empty; the google_id value is the legacy
\* text as a quoted literal, or NULL when absent or empty, never ''.
C16_ProviderIds ==
    \A lines \in Artifacts : \A i \in 1..Len(lines) :
        lines[i].kind = "insert_user" =>
            LET row == rows[CHOOSE k \in 1..Len(rows) :
                                IsCommentFor(lines[i - 1], rows[k])]
            IN  /\ IF Truthy(row.github_id)
                   THEN IsIntegerLiteral(lines[i].github_id)
                   ELSE lines[i].github_id = SqlNULL
                /\ IF Truthy(row.google_id)
                   THEN /\ SqlValue(lines[i].google_id) = row.google_id
                        /\ Head(lines[i].google_id) = "'"
                   ELSE lines[i].google_id = SqlNULL
                /\ lines[i].google_id # <<"'", "'">>

-----------------------------------------------------------------------------
(* Properties of live validation on a damaged sample. *)

NotBase64(text) == ~atob(text).ok
ShorterThanNonce(text) == atob(text).ok /\ Len(atob(text).value) < IV_LENGTH
KeyMismatchExit ==
    /\ Has(console, "Encryption key does NOT match production")
    /\ pc = "exited"
    /\ exitCode = 1
    /\ uncaught = NoError

\* C20 as stated: when the sampled record's ciphertext or salt is not base64,
\* or its blob is shorter than the 12-byte nonce, live validation prints the
\* key-does-not-match diagnostic and exits through process.exit(1), and the
\* run never reaches row processing.
C20_DamagedSampleIsMismatch ==
    \A w \in Range(d1.wallets) :
        (/\ QueryReturned(w)
         /\ \/ NotBase64(w.encrypted_jwk)
            \/ NotBase64(w.salt)
            \/ ShorterThanNonce(w.encrypted_jwk)) =>
            (KeyMismatchExit /\ AbortedBeforeRows)

-----------------------------------------------------------------------------
(* Properties of the self-test. *)

\* The decrypted fixture equals the fixture in kty, n, e and d.
EqualsFixture(decrypted) ==
    /\ decrypted.ok
    /\ \A f \in {"kty", "n", "e", "d"} :
           Member(decrypted.value, f) = Member(testJwk, f)

-----------------------------------------------------------------------------
(* Properties of the destination store under application. *)

\* User emails are unique, each user has at most one wallet, wallet addresses
\* are unique (NULL is no value and collides with nothing), and every
\* wallet's user_id is the id of a user.
StoreWellFormed(store) ==
    /\ \A i, j \in 1..Len(store.users) :
           i # j => ~SqlEq(store.users[i].email, store.users[j].email)
    /\ \A i, j \in 1..Len(store.wallets) :
           i # j => /\ ~SqlEq(store.wallets[i].user_id, store.wallets[j].user_id)
                    /\ ~SqlEq(store.wallets[i].address, store.wallets[j].address)
    /\ \A i \in 1..Len(store.wallets) :
           \E u \in 1..Len(store.users) :
               SqlEq(store.wallets[i].user_id, store.users[u].id)

\* C22 as stated: applying a generated artifact statement by statement to a
\* store with unique user emails, at most one wallet per user, unique wallet
\* addresses and every wallet's user_id naming a user yields, after every
\* statement, a store with the same four properties, for every batch of
\* legacy rows, batches with repeated emails, repeated addresses or empty
\* emails included.
C22_ApplyKeepsStoreWellFormed ==
    StoreWellFormed(d1Start) => StoreWellFormed(d1)

\* The users of the store that carry the email, and the wallets that belong
\* to a user or carry an address, as SQL compares them.
UsersWithEmail(store, email) ==
    {u \in 1..Len(store.users) : SqlEq(store.users[u].email, Stored(email))}
HasWalletOf(store, userId) ==
    \E w \in 1..Len(store.wallets) : SqlEq(store.wallets[w].user_id, userId)
AddressInUse(store, address) ==
    \E w \in 1..Len(store.wallets) :
        SqlEq(store.wallets[w].address, Stored(address))

\* C23: applying a statement pair to a store that already holds a user with
\* the row's email, that user having no wallet and the row's address being
\* unused, inserts no user row and inserts exactly one wallet row, whose
\* user_id is the existing user's id and not the id generated for the pair.
C23_ExistingUserGetsWallet ==
    [][(applyPos' = applyPos + 1) =>
        LET line == outputFile[applyPos']
            row == rows[RowOfLine(applyPos')]
        IN  /\ (/\ line.kind = "insert_user"
                /\ UsersWithEmail(d1, row.email) # {})
               => d1' = d1
            /\ (/\ line.kind = "insert_wallet"
                /\ \E u \in UsersWithEmail(d1, row.email) :
                       /\ d1.users[u].id # SqlValue(outputFile[applyPos' - 1].id)
                       /\ ~HasWalletOf(d1, d1.users[u].id)
                /\ ~AddressInUse(d1, row.wallet_address))
               => /\ d1'.users = d1.users
                  /\ Len(d1'.wallets) = Len(d1.wallets) + 1
                  /\ SubSeq(d1'.wallets, 1, Len(d1.wallets)) = d1.wallets
                  /\ LET w == d1'.wallets[Len(d1'.wallets)]
                     IN  /\ w.id = SqlValue(line.id)
                         /\ w.address = Stored(row.wallet_address)
                         /\ w.user_id # SqlValue(outputFile[applyPos' - 1].id)
                         /\ \E u \in UsersWithEmail(d1, row.email) :
                                w.user_id = d1.users[u].id]_vars

C23_Witness ==
    /\ Len(d1Start.users) = 1
    /\ d1Start.wallets = <<>>
    /\ Len(d1.users) = 1
    /\ Len(d1.wallets) = 1
    /\ d1.wallets[1].user_id = d1Start.users[1].id
    /\ d1.wallets[1].id[1] = "uuid-"
    /\ \E k \in 1..Len(rows) : rows[k].email = d1Start.users[1].email

\* The address is carried by a wallet other than the one with the given id.
AddressUsedByAnother(store, address, walletId) ==
    \E w \in 1..Len(store.wallets) :
        /\ SqlEq(store.wallets[w].address, Stored(address))
        /\ store.wallets[w].id # walletId

\* C24: applying a statement pair whose wallet address is already used by
\* another wallet inserts no wallet and the statement goes through without
\* an error; the pair's user insert still happens when its email is new, so
\* in the application that inserted it that user has no wallet after the
\* pair, although the run counted the row as migrated.
C24_AddressCollisionSkipsWallet ==
    [][(applyPos' = applyPos + 1) =>
        LET line == outputFile[applyPos']
            row == rows[RowOfLine(applyPos')]
        IN  /\ (/\ line.kind = "insert_user"
                /\ AddressInUse(d1, row.wallet_address)
                /\ UsersWithEmail(d1, row.email) = {})
               => /\ d1'.wallets = d1.wallets
                  /\ Len(d1'.users) = Len(d1.users) + 1
                  /\ d1'.users[Len(d1'.users)].id = SqlValue(line.id)
                  /\ d1'.users[Len(d1'.users)].email = Stored(row.email)
            /\ (/\ line.kind = "insert_wallet"
                /\ AddressUsedByAnother(d1, row.wallet_address, SqlValue(line.id)))
               => /\ d1' = d1
                  /\ migrated = NumPairs(outputFile)
                  /\ IsCommentFor(outputFile[applyPos' - 2], row)
                  /\ applyPass = 1 =>
                        ~HasWalletOf(d1', SqlValue(outputFile[applyPos' - 1].id))]_vars

C24_Witness ==
    /\ applyPass = 1
    /\ applyPos = Len(outputFile)
    /\ migrated = Len(rows)
    /\ \E u \in 1..Len(d1.users) : \E k \in 1..Len(rows) :
          /\ d1.users[u].id[1] = "uuid-"
          /\ d1.users[u].email = rows[k].email
          /\ ~HasWalletOf(d1, d1.users[u].id)
          /\ rows[k].wallet_address # <<>>
          /\ AddressInUse(d1, rows[k].wallet_address)

-----------------------------------------------------------------------------
(* Properties of the counters of the row loop. *)

\* C25: throughout the row loop neither counter decreases; each row whose
\* iteration completes increments exactly one of migrated and skipped, by
\* one; migrated + skipped is the number of rows iterated so far, and the
\* number of rows read once the loop has ended; the number of statement
\* pairs accumulated is migrated.
C25_Counters ==
    [][/\ migrated' >= migrated
       /\ skipped' >= skipped
       /\ (pc = "loop" /\ idx' = idx + 1) =>
            \/ migrated' = migrated + 1 /\ skipped' = skipped
            \/ skipped' = skipped + 1 /\ migrated' = migrated
       /\ (pc # "loop" \/ idx' = idx) => (migrated' = migrated /\ skipped' = skipped)
       /\ idx' > 0 => migrated' + skipped' = idx' - 1
       /\ NumPairs(sqlStatements') = migrated'
       /\ outputFile' # NoFile =>
            /\ migrated' + skipped' = Len(rows')
            /\ NumPairs(outputFile') = migrated']_vars

C25_Witness ==
    /\ outputFile # NoFile
    /\ Len(rows) = 2
    /\ migrated = 1
    /\ skipped = 1
    /\ NumPairs(outputFile) = 1

-----------------------------------------------------------------------------
(* Properties of the waits of live validation. *)

-----------------------------------------------------------------------------
(* Properties of the dashboard. *)

\* The request served last asked for a path behind the cookie check.
LastBehindCheck ==
    /\ dashboard.last.method # "none"
    /\ dashboard.last.path # "/dashboard/login"

\* C27: a request to a path other than /dashboard/login whose
\* dashboard_session cookie is absent or differs from
\* generateSessionToken(DASHBOARD_PASSWORD) is redirected to /dashboard/login
\* and no route handler runs for it; a response sets the cookie only when the
\* request is a POST to /dashboard/login whose password is DASHBOARD_PASSWORD.
C27_CookieGuardsRoutes ==
    dashboard.last.method # "none" =>
        LET last == dashboard.last
        IN  /\ (/\ last.path # "/dashboard/login"
                 /\ \/ last.token = Undefined
                    \/ last.token # generateSessionToken(dashboard.password)) =>
                  /\ last.response.status = 302
                  /\ last.response.location = "/dashboard/login"
                  /\ last.response.ran = "none"
                  /\ last.response.setCookie = NoCookie
            /\ last.response.setCookie.op = "set" =>
                  /\ last.method = "POST"
                  /\ last.path = "/dashboard/login"
                  /\ last.password = dashboard.password

\* A listing request with the token of another password was turned away.
C27_Witness ==
    /\ LastBehindCheck
    /\ dashboard.last.method = "GET"
    /\ dashboard.last.path = "/dashboard"
    /\ Truthy(dashboard.last.token)
    /\ dashboard.last.token # generateSessionToken(dashboard.password)
    /\ dashboard.last.token \in {generateSessionToken(p) : p \in Passwords}
    /\ dashboard.last.response.ran = "none"
    /\ dashboard.last.response.location = "/dashboard/login"

\* C28: what the middleware accepts depends on DASHBOARD_PASSWORD only:
\* every login issues the same cookie value, generateSessionToken of the
\* password, and whatever logins, failed logins and logouts came before, a
\* request behind the check is let through exactly when its cookie is that
\* value.
C28_AcceptedCookieOfPasswordOnly ==
    /\ \A i \in 1..Len(dashboard.issued) :
          dashboard.issued[i] = generateSessionToken(dashboard.password)
    /\ LastBehindCheck =>
          (dashboard.last.response.ran # "none"
             <=> dashboard.last.token = generateSessionToken(dashboard.password))

\* After two logins and a logout, the cookie of the first login still opens
\* the listing.
C28_Witness ==
    /\ Len(dashboard.issued) = 2
    /\ dashboard.logouts >= 1
    /\ dashboard.jar = Undefined
    /\ LastBehindCheck
    /\ dashboard.last.token = dashboard.issued[1]
    /\ dashboard.last.response.ran = "index"

-----------------------------------------------------------------------------
(* Properties of the values in the statements. *)

\* Every quote of body is one of a pair of adjacent quotes.
RECURSIVE QuotesPaired(_)
QuotesPaired(body) ==
    IF body = <<>> THEN TRUE
    ELSE IF Head(body) = "'"
         THEN Len(body) >= 2 /\ body[2] = "'" /\ QuotesPaired(Tail(Tail(body)))
         ELSE QuotesPaired(Tail(body))

\* token is exactly one complete SQL string literal.
IsStringLiteral(token) ==
    /\ Len(token) >= 2
    /\ token[1] = "'"
    /\ token[Len(token)] = "'"
    /\ QuotesPaired(SubSeq(token, 2, Len(token) - 1))

\* token is what the claim says sqlEscape makes of value.
EscapedAs(token, value) ==
    IF value = Null \/ value = Undefined \/ value = <<>>
    THEN token = SqlNULL
    ELSE IsStringLiteral(token) /\ SqlValue(token) = value

\* C29 as stated: sqlEscape gives NULL for a null, undefined or empty value
\* and otherwise the value in single quotes with its quotes doubled, one
\* complete string literal; in the two inserts of a row every legacy field
\* value is such a token, the github_id alone being an integer literal (or
\* NULL), and every other value of the inserts is a string literal or NULL.
C29_EscapedOrInteger ==
    \A lines \in Artifacts : \A i \in 1..Len(lines) :
        /\ lines[i].kind = "insert_user" =>
              LET line == lines[i]
                  row == rows[CHOOSE k \in 1..Len(rows) :
                                  IsCommentFor(lines[i - 1], rows[k])]
              IN  /\ IsStringLiteral(line.id)
                  /\ EscapedAs(line.email, row.email)
                  /\ EscapedAs(line.name, row.name)
                  /\ line.github_id = SqlNULL \/ IsIntegerLiteral(line.github_id)
                  /\ EscapedAs(line.google_id, row.google_id)
                  /\ EscapedAs(line.created_at, row.created)
                  /\ EscapedAs(line.updated_at, row.updated)
                  /\ EscapedAs(line.unless_email, row.email)
        /\ lines[i].kind = "insert_wallet" =>
              LET line == lines[i]
                  row == rows[CHOOSE k \in 1..Len(rows) :
                                  IsCommentFor(lines[i - 2], rows[k])]
              IN  /\ IsStringLiteral(line.id)
                  /\ EscapedAs(line.user_of_email, row.email)
                  /\ EscapedAs(line.address, row.wallet_address)
                  /\ IsStringLiteral(line.encrypted_jwk)
                  /\ IsStringLiteral(line.salt)
                  /\ EscapedAs(line.created_at, row.wallet_created)
                  /\ EscapedAs(line.updated_at, row.wallet_updated)
                  /\ EscapedAs(line.unless_wallet_of_email, row.email)
                  /\ EscapedAs(line.unless_address, row.wallet_address)

=============================================================================
